---- MODULE Spec2Model ----
(***************************************************************************)
(* A model of lib/IDE/Refactoring.cpp: the syntactic rename engine         *)
(* (Renamer, TextReplacementsRenamer, RenameRangeDetailCollector,          *)
(* syntacticRename, findSyntacticRenameRanges) and the async refactorings  *)
(* (AsyncConverter and the three performChange operations built on it).    *)
(*                                                                         *)
(* Source text is a sequence of one-character strings.  Offsets, lengths   *)
(* and indices are 0-based as in the C++ code; a CharSourceRange is a      *)
(* record [start, len] into the buffer of its occurrence.                  *)
(***************************************************************************)
EXTENDS Integers, Sequences, FiniteSets, TLC

VARIABLES
  AssertsEnabled, \* the build: TRUE when assert() is compiled in
  RenameLocs,     \* syntacticRename's input: RenameLoc + its ResolvedLoc + buffer
  entry,          \* "rename" (syntacticRename) or "find" (findSyntacticRenameRanges)
  pc,             \* position inside the running operation
  index,          \* syntacticRename's loop counter index
  accepted,       \* the calls EditConsumer/RenameConsumer.accept has received,
                  \* each with the doRename* calls made for its occurrence
  diags,          \* the diagnostics raised through DiagEngine
  ret,            \* the operation's return value, "none" until it returns
  conv,           \* the AsyncConverter instances of the running operation
  hadAnyError,    \* DiagEngine.hadAnyError()
  request,        \* the refactoring request of the async operations
  edits,          \* edits sent to the SourceEditConsumer by the async operations
  uses,           \* history: completed convert()/createLegacyBody() runs per instance
  locals          \* the values an operation computes on its way: the handler
                  \* description, the classified blocks, the names in scope

vars == <<AssertsEnabled, RenameLocs, entry, pc, index, accepted, diags, ret,
          conv, hadAnyError, request, edits, uses, locals>>

renameVars == <<RenameLocs, entry, index, accepted, diags>>
asyncVars == <<conv, hadAnyError, request, edits, uses, locals>>

(***************************************************************************)
(* Text helpers (llvm::StringRef).                                         *)
(***************************************************************************)

\* StringRef::npos
npos == -1

\* The value of size_t(0) - 1, written as in the code's own idiom for npos.
SizeMax == -1

\* Default trim set of StringRef::ltrim/rtrim, " \t\n\v\f\r" ("\v" has no
\* TLA+ spelling and occurs in no input of the model).
WhitespaceChars == {" ", "\t", "\n", "\f", "\r"}

\* The split set of splitAndRenameParamLabel, " \t\n\v\f\r/".
ParamSplitChars == WhitespaceChars \cup {"/"}

Letters == {"a", "b", "c", "d", "e", "f", "g", "h", "i", "j", "k", "l", "m",
            "n", "o", "p", "q", "r", "s", "t", "u", "v", "w", "x", "y", "z",
            "A", "F", "I", "T"}
Digits == {"0", "1", "2", "3", "4", "5", "6", "7", "8", "9"}
IdentStartChars == Letters \cup {"_"}
IdentChars == IdentStartChars \cup Digits
OperatorChars == {"+", "-", "*", "<", ">", "=", "!", "&", "|", "^", "~", "?", "%"}

\* The backtick character of an escaped identifier; the TLA+ lexer accepts no
\* backtick inside a string, so the character is written as this token.
Backtick == "BQ"

Min(a, b) == IF a < b THEN a ELSE b
Max(a, b) == IF a > b THEN a ELSE b

\* StringRef::substr(Start, N)
Substr(s, start, n) ==
  LET st == Min(start, Len(s))
      ln == Min(n, Len(s) - st)
  IN SubSeq(s, st + 1, st + ln)

\* StringRef::find_first_of(Chars): 0-based offset or npos
FindFirstOf(s, chars) ==
  LET hits == {i \in 1..Len(s) : s[i] \in chars}
  IN IF hits = {} THEN npos
     ELSE (CHOOSE i \in hits : \A j \in hits : i <= j) - 1

\* StringRef::find_last_of(Chars): 0-based offset or npos
FindLastOf(s, chars) ==
  LET hits == {i \in 1..Len(s) : s[i] \in chars}
  IN IF hits = {} THEN npos
     ELSE (CHOOSE i \in hits : \A j \in hits : i >= j) - 1

\* StringRef::find(':')
FindChar(s, c) == FindFirstOf(s, {c})

\* size of s.rtrim()
RTrimSize(s) ==
  LET keep == {i \in 1..Len(s) : s[i] \notin WhitespaceChars}
  IN IF keep = {} THEN 0 ELSE CHOOSE i \in keep : \A j \in keep : i >= j

RTrim(s) == SubSeq(s, 1, RTrimSize(s))

\* s.ltrim()
LTrim(s) ==
  LET keep == {i \in 1..Len(s) : s[i] \notin WhitespaceChars}
  IN IF keep = {} THEN <<>>
     ELSE SubSeq(s, CHOOSE i \in keep : \A j \in keep : i <= j, Len(s))

\* CharSourceRange
Range(start, len) == [start |-> start, len |-> len]
RangeEnd(r) == r.start + r.len
\* CharSourceRange::str()
RangeStr(buf, r) == SubSeq(buf, r.start + 1, r.start + r.len)

(***************************************************************************)
(* Lexer                                                                   *)
(***************************************************************************)

\* Length of the token the lexer finds at 0-based offset start: an
\* identifier is the maximal run of identifier characters, any other
\* character is a token of its own.
LexTokenLen(buf, start) ==
  IF start >= Len(buf) THEN 0
  ELSE IF buf[start + 1] \notin IdentChars THEN 1
  ELSE LET stops == {i \in (start + 1)..Len(buf) : buf[i] \notin IdentChars}
       IN IF stops = {} THEN Len(buf) - start
          ELSE (CHOOSE i \in stops : \A j \in stops : i <= j) - 1 - start

\* Lexer::isIdentifier
IsIdentifier(s) ==
  /\ Len(s) > 0
  /\ s[1] \in IdentStartChars
  /\ \A i \in 1..Len(s) : s[i] \in IdentChars

\* Lexer::isOperator
IsOperator(s) ==
  /\ Len(s) > 0
  /\ \A i \in 1..Len(s) : s[i] \in OperatorChars

(***************************************************************************)
(* DeclNameViewer: "foo(a:b:)" parsed into base name and labels.           *)
(***************************************************************************)

RECURSIVE SplitAt(_, _)
\* StringRef::split(Out, Sep) keeping empty pieces
SplitAt(s, sep) ==
  LET p == FindChar(s, sep)
  IN IF p = npos THEN <<s>>
     ELSE <<SubSeq(s, 1, p)>> \o SplitAt(SubSeq(s, p + 2, Len(s)), sep)

DropLast(q) == SubSeq(q, 1, Len(q) - 1)

\* The labels between the parentheses, split at each colon: the name is
\* valid when the text after the last colon is empty.
DeclNameArgs(base, pieces) ==
  IF pieces[Len(pieces)] = <<>>
    THEN [base |-> base,
          labels |-> [i \in 1..(Len(pieces) - 1) |->
                        IF pieces[i] = <<"_">> THEN <<>> ELSE pieces[i]],
          valid |-> TRUE]
    ELSE [base |-> base, labels |-> pieces, valid |-> FALSE]

DeclNameParts(text, argStart, argEnd) ==
  IF argStart = npos
    THEN [base |-> text, labels |-> <<>>, valid |-> TRUE]
  ELSE IF argEnd = npos
    THEN [base |-> SubSeq(text, 1, argStart), labels |-> <<>>, valid |-> FALSE]
  ELSE DeclNameArgs(SubSeq(text, 1, argStart),
                    SplitAt(Substr(text, argStart + 1, argEnd - argStart - 1),
                            ":"))

DeclNameViewer(text) ==
  DeclNameParts(text, FindChar(text, "("), FindLastOf(text, {")"}))

\* DeclNameViewer::partsCount
partsCount(name) == 1 + Len(name.labels)

(***************************************************************************)
(* Renamer                                                                 *)
(***************************************************************************)

\* llvm::None, in RenameRangeDetail::Index and Optional<unsigned>
None == -1

\* One call of the implementor's interface, doRenameBase / doRenameLabel.
RenameCall(range, kind, nameIndex) ==
  [range |-> range, kind |-> kind, index |-> nameIndex]

\* The result of the matching functions: fail is the C++ return value
\* (true = the ranges do not match the old name), calls the doRename*
\* calls made before returning, abort a failed assertion or memory fault.
Matched(calls) == [fail |-> FALSE, abort |-> FALSE, calls |-> calls]
Failed(calls) == [fail |-> TRUE, abort |-> FALSE, calls |-> calls]
Aborted(calls) == [fail |-> FALSE, abort |-> TRUE, calls |-> calls]

stripBackticks(buf, r) ==
  LET Content == RangeStr(buf, r)
  IN IF Len(Content) < 3 \/ Content[1] # Backtick \/ Content[Len(Content)] # Backtick
       THEN r
       ELSE Range(r.start + 1, r.len - 2)

renameBase(buf, r, oldBase, kind) ==
  IF RangeStr(buf, stripBackticks(buf, r)) # oldBase
    THEN Failed(<<>>)
    ELSE Matched(<<RenameCall(r, kind, None)>>)

IsEscapedRange(buf, r) == RangeStr(buf, r)[1] = Backtick

getLeadingIdentifierRange(buf, r) ==
  LET Start == IF IsEscapedRange(buf, r) THEN r.start + 1 ELSE r.start
  IN Range(Start, LexTokenLen(buf, Start))

labelRangeMatches(buf, r, RangeType, Expected) ==
  IF r.len > 0
    THEN LET IsEscaped == IsEscapedRange(buf, r)
             ExistingLabelRange == getLeadingIdentifierRange(buf, r)
             ExistingLabel == RangeStr(buf, ExistingLabelRange)
             IsSingleName == \/ r = ExistingLabelRange
                             \/ IsEscaped /\ r.len = Len(ExistingLabel) + 2
         IN IF RangeType = "NoncollapsibleParam" /\ IsSingleName /\ Expected = <<>>
              THEN TRUE
              ELSE ExistingLabel = (IF Expected = <<>> THEN <<"_">> ELSE Expected)
    ELSE Expected = <<>>

\* A split that treats a span without separator alike for collapsible and
\* non-collapsible parameters.
splitAndRenameParamLabel_AlwaysCollapses(buf, r, NameIndex, IsCollapsible) ==
  LET Content == RangeStr(buf, r)
      ExternalNameEnd == FindFirstOf(Content, ParamSplitChars)
  IN IF ExternalNameEnd = npos
       THEN <<RenameCall(r, "DeclArgumentLabel", NameIndex),
              RenameCall(Range(RangeEnd(r), 0),
                         IF IsCollapsible THEN "ParameterName"
                                          ELSE "NoncollapsibleParameterName",
                         NameIndex)>>
       ELSE LET Ext == Range(r.start, ExternalNameEnd)
                Last == FindLastOf(Content, ParamSplitChars)
                LocalNameStart == IF IsCollapsible THEN Last ELSE Last + 1
                Local == Range(r.start + LocalNameStart, Len(Content) - LocalNameStart)
            IN <<RenameCall(Ext, "DeclArgumentLabel", NameIndex),
                 RenameCall(Local,
                            IF IsCollapsible THEN "ParameterName"
                                             ELSE "NoncollapsibleParameterName",
                            NameIndex)>>

splitAndRenameParamLabel(buf, r, NameIndex, IsCollapsible) ==
  LET Content == RangeStr(buf, r)
      ExternalNameEnd == FindFirstOf(Content, ParamSplitChars)
  IN IF ExternalNameEnd = npos
       THEN IF IsCollapsible
              THEN <<RenameCall(r, "DeclArgumentLabel", NameIndex),
                     RenameCall(Range(RangeEnd(r), 0), "ParameterName", NameIndex)>>
              ELSE <<RenameCall(Range(r.start, 0), "DeclArgumentLabel", NameIndex),
                     RenameCall(r, "NoncollapsibleParameterName", NameIndex)>>
       ELSE LET Ext == Range(r.start, ExternalNameEnd)
                Last == FindLastOf(Content, ParamSplitChars)
                LocalNameStart == IF IsCollapsible THEN Last ELSE Last + 1
                Local == Range(r.start + LocalNameStart, Len(Content) - LocalNameStart)
            IN <<RenameCall(Ext, "DeclArgumentLabel", NameIndex),
                 RenameCall(Local,
                            IF IsCollapsible THEN "ParameterName"
                                             ELSE "NoncollapsibleParameterName",
                            NameIndex)>>

\* A split whose remainder starts at the colon itself.
splitAndRenameCallArg_RestAtColon(buf, r, NameIndex) ==
  LET Content == RangeStr(buf, r)
      Found == FindChar(Content, ":")
  IN IF Found = npos
       THEN <<RenameCall(r, "CallArgumentCombined", NameIndex)>>
       ELSE <<RenameCall(Range(r.start, RTrimSize(Substr(Content, 0, Found))),
                         "CallArgumentLabel", NameIndex),
              RenameCall(Range(r.start + Found, Len(Content) - Found),
                         "CallArgumentColon", NameIndex)>>

splitAndRenameCallArg(buf, r, NameIndex) ==
  LET Content == RangeStr(buf, r)
      Found == FindChar(Content, ":")
  IN IF Found = npos
       THEN <<RenameCall(r, "CallArgumentCombined", NameIndex)>>
       ELSE LET Colon == RTrimSize(Substr(Content, 0, Found))
                Arg == Range(r.start, Colon)
                Rest == Range(r.start + Colon, Len(Content) - Colon)
            IN <<RenameCall(Arg, "CallArgumentLabel", NameIndex),
                 RenameCall(Rest, "CallArgumentColon", NameIndex)>>

splitAndRenameLabel(buf, r, RangeType, NameIndex) ==
  CASE RangeType = "CallArg" -> splitAndRenameCallArg(buf, r, NameIndex)
    [] RangeType = "Param" -> splitAndRenameParamLabel(buf, r, NameIndex, TRUE)
    [] RangeType = "NoncollapsibleParam" ->
         splitAndRenameParamLabel(buf, r, NameIndex, FALSE)
    [] RangeType = "Selector" ->
         <<RenameCall(r, "SelectorArgumentLabel", NameIndex)>>

RECURSIVE renameLabelsStrictLoop(_, _, _, _, _, _)
\* The loop of renameLabels (isCallSite = false), from 0-based Index on.
renameLabelsStrictLoop(buf, OldLabels, LabelRanges, RangeType, Index, calls) ==
  IF Index >= Len(LabelRanges) THEN Matched(calls)
  ELSE IF ~labelRangeMatches(buf, LabelRanges[Index + 1], RangeType, OldLabels[Index + 1])
    THEN Failed(calls)
  ELSE renameLabelsStrictLoop(buf, OldLabels, LabelRanges, RangeType, Index + 1,
         calls \o splitAndRenameLabel(buf, LabelRanges[Index + 1], RangeType, Index))

renameLabelsStrict(buf, OldLabels, LabelRanges, RangeType, calls) ==
  IF Len(OldLabels) # Len(LabelRanges) THEN Failed(calls)
  ELSE renameLabelsStrictLoop(buf, OldLabels, LabelRanges, RangeType, 0, calls)

(***************************************************************************)
(* renameLabelsLenient.  OldNames is an ArrayRef that only ever shrinks    *)
(* from the back, so it is Old.args() cut to its first size elements.    *)
(* cx = [Old, asserts, garbage]: the old labels, whether assert() is       *)
(* compiled in, and the value a read outside Old.args() finds in memory.   *)
(***************************************************************************)

Context(OldLabels, asserts, garbage) ==
  [Old |-> OldLabels, asserts |-> asserts, garbage |-> garbage]

\* Index >= OldNames.size(), for a size_t that may have wrapped around
SizeGE(i, size) == size # SizeMax /\ i >= size

\* OldNames[i] without the bounds assertion: the element at that address,
\* which is the old name's own label inside Old.args() and garbage beyond.
PhysRead(cx, i) == IF i < Len(cx.Old) THEN cx.Old[i + 1] ELSE cx.garbage

MaxOf(S) == CHOOSE i \in S : \A j \in S : i >= j

TrailingResult(fail, abort, calls, size) ==
  [fail |-> fail, abort |-> abort, calls |-> calls, size |-> size]

RECURSIVE matchTrailing(_, _, _, _, _, _)
\* "First, match trailing closure arguments in reverse": the loop over
\* llvm::reverse(indices(TrailingLabels)), at LabelIndex, with
\* OldNames.size() = size.
matchTrailing(cx, buf, TrailingLabels, LabelIndex, size, calls) ==
  IF LabelIndex < 0 THEN TrailingResult(FALSE, FALSE, calls, size)
  ELSE
    LET Label == TrailingLabels[LabelIndex + 1]
        \* the 1-based positions the while loop can stop at
        stops == IF Label.len > 0
                   THEN {j \in 1..size :
                           labelRangeMatches(buf, Label, "Selector", cx.Old[j])}
                   ELSE {j \in 1..size : cx.Old[j] = <<>>}
    IN IF Label.len > 0 \/ LabelIndex # 0
         THEN IF stops = {}
                THEN TrailingResult(TRUE, FALSE, calls, size)
                ELSE matchTrailing(cx, buf, TrailingLabels, LabelIndex - 1,
                       MaxOf(stops) - 1,
                       calls \o splitAndRenameLabel(buf, Label, "Selector",
                                                    MaxOf(stops) - 1))
         \* unlabelled trailing closure label: OldNames.drop_back()
         ELSE IF size = 0
                THEN IF cx.asserts
                       THEN TrailingResult(FALSE, TRUE, calls, size)
                       ELSE matchTrailing(cx, buf, TrailingLabels, LabelIndex - 1,
                                          SizeMax, calls)
                ELSE matchTrailing(cx, buf, TrailingLabels, LabelIndex - 1,
                                   size - 1, calls)

\* A scan that takes the old label at NameIndex whatever it is.
scanOldNames_TakesAny(cx, buf, Label, RangeType, NameIndex, size) ==
  [kind |-> "found", at |-> NameIndex]

RECURSIVE scanOldNames(_, _, _, _, _, _)
\* while (!matches(OldNames[NameIndex])) if (++NameIndex >= size) return true;
\* where matches is OldNames[NameIndex].empty() for an empty label.
scanOldNames(cx, buf, Label, RangeType, NameIndex, size) ==
  IF cx.asserts /\ SizeGE(NameIndex, size) THEN [kind |-> "abort", at |-> NameIndex]
  ELSE LET OldName == PhysRead(cx, NameIndex)
           hit == IF Label.len = 0 THEN OldName = <<>>
                  ELSE labelRangeMatches(buf, Label, RangeType, OldName)
       IN IF hit THEN [kind |-> "found", at |-> NameIndex]
          ELSE IF SizeGE(NameIndex + 1, size) THEN [kind |-> "fail", at |-> NameIndex]
          \* the loop has left Old.args() and garbage did not end it: it
          \* runs on through memory until the process faults
          ELSE IF NameIndex + 1 > Len(cx.Old) THEN [kind |-> "abort", at |-> NameIndex]
          ELSE scanOldNames(cx, buf, Label, RangeType, NameIndex + 1, size)

RECURSIVE matchLeading(_, _, _, _, _, _, _, _)
RECURSIVE afterScan(_, _, _, _, _, _, _, _)
\* What follows the while loop over OldNames for the label at pos: the
\* "return true" inside it, or splitAndRenameLabel(Label, RangeType,
\* NameIndex++) and the next label.
afterScan(cx, buf, LabelRanges, RangeType, pos, size, calls, scan) ==
  CASE scan.kind = "abort" -> Aborted(calls)
    [] scan.kind = "fail" -> Failed(calls)
    [] scan.kind = "found" ->
         matchLeading(cx, buf, LabelRanges, RangeType, pos + 1,
                      scan.at + 1, size,
                      calls \o splitAndRenameLabel(buf, LabelRanges[pos + 1],
                                                   RangeType, scan.at))

\* "Next, match the non-trailing arguments": the loop over LabelRanges at
\* 0-based position pos.
matchLeading(cx, buf, LabelRanges, RangeType, pos, NameIndex, size, calls) ==
  IF pos >= Len(LabelRanges) THEN Matched(calls)
  ELSE IF LabelRanges[pos + 1].len = 0 /\ NameIndex # 0
    \* empty label, other name pos
    THEN IF SizeGE(NameIndex, size) \/ PhysRead(cx, NameIndex) # <<>>
           THEN matchLeading(cx, buf, LabelRanges, RangeType, pos + 1,
                             NameIndex, size, calls)
           ELSE matchLeading(cx, buf, LabelRanges, RangeType, pos + 1,
                  NameIndex + 1, size,
                  calls \o splitAndRenameLabel(buf, LabelRanges[pos + 1],
                                               RangeType, NameIndex))
  \* non-empty label
  ELSE IF LabelRanges[pos + 1].len # 0 /\ SizeGE(NameIndex, size)
    THEN Failed(calls)
  \* empty label at the first name pos, or non-empty label
  ELSE afterScan(cx, buf, LabelRanges, RangeType, pos, size, calls,
                 scanOldNames(cx, buf, LabelRanges[pos + 1], RangeType,
                              NameIndex, size))

\* The second half of renameLabelsLenient, after the trailing closures
\* have left OldNames with t.size elements.
afterTrailing(cx, buf, Leading, RangeType, t) ==
  IF t.abort THEN Aborted(t.calls)
  ELSE IF t.fail THEN Failed(t.calls)
  ELSE matchLeading(cx, buf, Leading, RangeType, 0, 0, t.size, t.calls)

renameLabelsLenient(cx, buf, LabelRanges, FirstTrailingLabel, RangeType) ==
  IF FirstTrailingLabel # None
    THEN afterTrailing(cx, buf, SubSeq(LabelRanges, 1, FirstTrailingLabel),
           RangeType,
           matchTrailing(cx, buf,
                         SubSeq(LabelRanges, FirstTrailingLabel + 1,
                                Len(LabelRanges)),
                         Len(LabelRanges) - FirstTrailingLabel - 1,
                         Len(cx.Old), <<>>))
    ELSE matchLeading(cx, buf, LabelRanges, RangeType, 0, 0, Len(cx.Old), <<>>)

renameLabels(cx, buf, LabelRanges, FirstTrailingLabel, RangeType, isCallSite) ==
  IF isCallSite
    THEN renameLabelsLenient(cx, buf, LabelRanges, FirstTrailingLabel, RangeType)
    ELSE renameLabelsStrict(buf, cx.Old, LabelRanges, RangeType, <<>>)

(***************************************************************************)
(* Renamer::addSyntacticRenameRanges                                       *)
(***************************************************************************)

InitName == <<"i", "n", "i", "t">>
SubscriptName == <<"s", "u", "b", "s", "c", "r", "i", "p", "t">>
CallAsFunctionName ==
  <<"c", "a", "l", "l", "A", "s", "F", "u", "n", "c", "t", "i", "o", "n">>

getSyntacticRenameRegionType(Resolved) ==
  IF Resolved.NodeIsNull THEN "Comment"
  ELSE IF Resolved.IsStringLiteral THEN "String"
  ELSE IF Resolved.IsInSelector THEN "Selector"
  ELSE IF Resolved.IsActive THEN "ActiveCode"
  ELSE "InactiveCode"

RegionResult(type, calls) == [type |-> type, abort |-> FALSE, calls |-> calls]
RegionAbort(calls) == [type |-> "Abort", abort |-> TRUE, calls |-> calls]

\* "if (renameLabels(...)) return Usage == Unknown ? Unmatched : Mismatch;
\* return RegionKind;" for the result r of renameLabels.
afterLabels(o, RegionKind, calls, r) ==
  IF r.abort THEN RegionAbort(calls \o r.calls)
  ELSE IF r.fail
    THEN RegionResult(IF o.Usage = "Unknown" THEN "Unmatched" ELSE "Mismatch",
                      calls \o r.calls)
  ELSE RegionResult(RegionKind, calls \o r.calls)

IsSubscript(o, Old) == Old.base = SubscriptName /\ o.IsFunctionLike
IsInit(o, Old) == Old.base = InitName /\ o.IsFunctionLike
IsCallAsFunction(o, Old) == Old.base = CallAsFunctionName /\ o.IsFunctionLike
IsSpecialBase(o, Old) ==
  IsInit(o, Old) \/ IsSubscript(o, Old) \/ IsCallAsFunction(o, Old)

\* The switch that sets HandleLabels.
HandleLabels(o, Old) ==
  /\ o.IsFunctionLike
  /\ CASE o.Usage = "Call" -> ~IsOperator(Old.base)
       [] o.Usage = "Definition" -> TRUE
       [] o.Usage = "Reference" -> o.LabelType = "Selector" \/ IsSubscript(o, Old)
       [] o.Usage = "Unknown" -> o.LabelType # "None"

isCallSite(o, Old) ==
  /\ o.Usage # "Definition"
  /\ (o.Usage # "Reference" \/ IsSubscript(o, Old))
  /\ o.LabelType = "CallArg"

\* The part of addSyntacticRenameRanges from "bool HandleLabels = false" on;
\* calls holds what renameBase has emitted.
handleLabels(cx, o, Old, RegionKind, calls) ==
  IF /\ ~o.IsFunctionLike
     /\ o.LabelType # "None"
     /\ ~o.IsNonProtocolType
     /\ o.Usage # "Definition"
    THEN RegionResult("Mismatch", calls)
  ELSE IF ~HandleLabels(o, Old) THEN RegionResult(RegionKind, calls)
  ELSE afterLabels(o, RegionKind, calls,
         renameLabels(cx, o.Buffer, o.LabelRanges, o.FirstTrailingLabel,
                      o.LabelType, isCallSite(o, Old)))

\* A chain that requires the base of a subscript to match for references
\* as well as for definitions.
renameBaseStep_SubscriptReference(o, Old) ==
  IF ~o.IsFunctionLike \/ ~IsSpecialBase(o, Old)
    THEN renameBase(o.Buffer, o.Range, Old.base, "BaseName")
  ELSE IF IsInit(o, Old) \/ IsCallAsFunction(o, Old)
    THEN IF o.Usage \in {"Definition", "Reference"}
           THEN renameBase(o.Buffer, o.Range, Old.base, "KeywordBaseName")
           ELSE Matched(renameBase(o.Buffer, o.Range, Old.base,
                                   "KeywordBaseName").calls)
  ELSE IF o.Usage \in {"Definition", "Reference"}
    THEN renameBase(o.Buffer, o.Range, Old.base, "KeywordBaseName")
  ELSE Matched(<<>>)

\* The if/else-if chain over renameBase: fail when it returns Mismatch,
\* otherwise the doRenameBase call made, if any.
renameBaseStep(o, Old) ==
  IF ~o.IsFunctionLike \/ ~IsSpecialBase(o, Old)
    THEN renameBase(o.Buffer, o.Range, Old.base, "BaseName")
  ELSE IF IsInit(o, Old) \/ IsCallAsFunction(o, Old)
    THEN IF o.Usage \in {"Definition", "Reference"}
           THEN renameBase(o.Buffer, o.Range, Old.base, "KeywordBaseName")
           ELSE Matched(renameBase(o.Buffer, o.Range, Old.base,
                                   "KeywordBaseName").calls)
  ELSE IF o.Usage = "Definition"
    THEN renameBase(o.Buffer, o.Range, Old.base, "KeywordBaseName")
  ELSE Matched(<<>>)

afterBase(cx, o, Old, RegionKind, b) ==
  IF b.fail THEN RegionResult("Mismatch", <<>>)
  ELSE handleLabels(cx, o, Old, RegionKind, b.calls)

addSyntacticRenameRanges(cx, o, Old) ==
  IF ~o.RangeValid THEN RegionResult("Unmatched", <<>>)
  ELSE IF getSyntacticRenameRegionType(o) = "ActiveCode" /\ o.Usage = "Unknown"
    THEN RegionResult("Unmatched", <<>>)
  ELSE IF cx.asserts /\ o.Usage = "Call" /\ ~o.IsFunctionLike
    THEN RegionAbort(<<>>)
  ELSE IF IsSpecialBase(o, Old) /\ o.Usage = "Unknown" /\ o.LabelType = "None"
    THEN RegionResult("Unmatched", <<>>)
  ELSE afterBase(cx, o, Old, getSyntacticRenameRegionType(o),
                 renameBaseStep(o, Old))

(***************************************************************************)
(* TextReplacementsRenamer                                                 *)
(***************************************************************************)

getCallArgLabelReplacement(OldLabelRange, NewLabel) ==
  IF NewLabel = <<>> THEN <<>> ELSE NewLabel

\* A colon replacement that keeps the colon of a removed label.
getCallArgColonReplacement_KeepsColon(OldLabelRange, NewLabel) ==
  IF OldLabelRange = <<>> THEN <<":", " ">> ELSE OldLabelRange

getCallArgColonReplacement(OldLabelRange, NewLabel) ==
  IF NewLabel = <<>> THEN <<>>
  ELSE IF OldLabelRange = <<>> THEN <<":", " ">>
  ELSE OldLabelRange

getCallArgCombinedReplacement(OldArgLabel, NewArgLabel) ==
  IF NewArgLabel = <<>> THEN <<>> ELSE NewArgLabel \o <<":", " ">>

getParamNameReplacement(OldParam, OldArgLabel, NewArgLabel) ==
  IF NewArgLabel # <<>> /\ LTrim(OldParam) = NewArgLabel THEN <<>>
  ELSE IF NewArgLabel = <<>> /\ OldArgLabel # <<>> /\ OldParam = <<>>
    THEN <<" ">> \o OldArgLabel
  ELSE OldParam

getDeclArgumentLabelReplacement(OldLabelRange, NewArgLabel) ==
  IF NewArgLabel = <<>>
    THEN IF OldLabelRange = <<>> THEN <<>> ELSE <<"_">>
  ELSE IF OldLabelRange = <<>> THEN NewArgLabel \o <<" ">>
  ELSE NewArgLabel

getReplacementText(LabelRange, RangeKind, OldLabel, NewLabel) ==
  CASE RangeKind = "CallArgumentLabel" ->
         getCallArgLabelReplacement(LabelRange, NewLabel)
    [] RangeKind = "CallArgumentColon" ->
         getCallArgColonReplacement(LabelRange, NewLabel)
    [] RangeKind = "CallArgumentCombined" ->
         getCallArgCombinedReplacement(LabelRange, NewLabel)
    [] RangeKind = "ParameterName" ->
         getParamNameReplacement(LabelRange, OldLabel, NewLabel)
    [] RangeKind = "NoncollapsibleParameterName" -> LabelRange
    [] RangeKind = "DeclArgumentLabel" ->
         getDeclArgumentLabelReplacement(LabelRange, NewLabel)
    [] RangeKind = "SelectorArgumentLabel" ->
         IF NewLabel = <<>> THEN <<"_">> ELSE NewLabel

Replacement(range, text) == [range |-> range, text |-> text]

\* addReplacement: the Replacements pushed for one doRenameLabel call
addReplacement(buf, LabelRange, RangeKind, OldLabel, NewLabel) ==
  LET ExistingLabel == RangeStr(buf, LabelRange)
      Text == getReplacementText(ExistingLabel, RangeKind, OldLabel, NewLabel)
  IN IF Text # ExistingLabel THEN <<Replacement(LabelRange, Text)>> ELSE <<>>

\* Old.args()[NameIndex] / New.args()[NameIndex] without the bounds assertion
ArgsRead(args, NameIndex, garbage) ==
  IF NameIndex < Len(args) THEN args[NameIndex + 1] ELSE garbage

doRenameLabel(cx, buf, Old, New, call) ==
  addReplacement(buf, call.range, call.kind,
                 ArgsRead(Old.labels, call.index, cx.garbage),
                 ArgsRead(New.labels, call.index, cx.garbage))

doRenameBase(Old, New, call) ==
  IF Old.base # New.base THEN <<Replacement(call.range, New.base)>> ELSE <<>>

RECURSIVE getReplacements(_, _, _, _, _)
\* The Replacements vector after the given doRename* calls.
getReplacements(cx, buf, Old, New, calls) ==
  IF calls = <<>> THEN <<>>
  ELSE (IF Head(calls).index = None
          THEN doRenameBase(Old, New, Head(calls))
          ELSE doRenameLabel(cx, buf, Old, New, Head(calls)))
       \o getReplacements(cx, buf, Old, New, Tail(calls))

\* A doRenameLabel call whose NameIndex is outside Old.args() or New.args():
\* SmallVector's operator[] asserts on it.
IndexOutOfArgs(Old, New, calls) ==
  \E i \in 1..Len(calls) :
    /\ calls[i].index # None
    /\ calls[i].index >= Min(Len(Old.labels), Len(New.labels))

(***************************************************************************)
(* resolveRenameLocations, syntacticRename, findSyntacticRenameRanges      *)
(***************************************************************************)

\* "NewName.isValid() && (isIdentifier(base) || isOperator(base)) &&
\* all_of(args, empty or isIdentifier)"
NewNameIsValid(NewName) ==
  /\ NewName.valid
  /\ (IsIdentifier(NewName.base) \/ IsOperator(NewName.base))
  /\ \A i \in 1..Len(NewName.labels) :
       NewName.labels[i] = <<>> \/ IsIdentifier(NewName.labels[i])

checkNames(o, OldName, NewName) ==
  IF ~OldName.valid THEN "invalid_name"
  ELSE IF o.NewName = <<>> THEN "ok"
  ELSE IF ~NewNameIsValid(NewName) THEN "invalid_name"
  ELSE IF partsCount(NewName) # partsCount(OldName) THEN "arity_mismatch"
  ELSE IF o.Usage = "Call" /\ ~o.IsFunctionLike THEN "name_not_functionlike"
  ELSE "ok"

\* The checks of resolveRenameLocations on one RenameLoc: the diagnostic it
\* raises, or "ok".
checkRenameLoc(o) ==
  checkNames(o, DeclNameViewer(o.OldName), DeclNameViewer(o.NewName))

firstDiag(d, rest) == IF d # "ok" THEN d ELSE rest

RECURSIVE resolveRenameLocations(_)
\* The first diagnostic of the loop over RenameLocs, or "ok" when every
\* location is handed to the NameMatcher.
resolveRenameLocations(locs) ==
  IF locs = <<>> THEN "ok"
  ELSE firstDiag(checkRenameLoc(Head(locs)), resolveRenameLocations(Tail(locs)))

\* The values a read outside an array may find.
GarbageValues == {<<>>, <<"q">>}

\* The assertions of TextReplacementsRenamer's constructor.
ConstructorAsserts(Old, New) ==
  /\ Old.valid /\ New.valid
  /\ partsCount(Old) = partsCount(New)

IterationAbort ==
  [abort |-> TRUE, type |-> "Abort", edits |-> <<>>, calls |-> <<>>]

\* What accept() receives for the RegionType and calls r of one occurrence:
\* None on Mismatch, else Renamer.getReplacements() or the collected Ranges.
\* The field calls keeps the doRename* calls the Renamer has made.
iterationResult(cx, how, o, Old, New, r) ==
  IF r.abort THEN IterationAbort
  ELSE IF how = "rename" /\ cx.asserts /\ IndexOutOfArgs(Old, New, r.calls)
    THEN IterationAbort
  ELSE IF r.type = "Mismatch"
    THEN [abort |-> FALSE, type |-> "Mismatch", edits |-> <<>>,
          calls |-> r.calls]
  ELSE [abort |-> FALSE, type |-> r.type, calls |-> r.calls,
        edits |-> IF how = "rename"
                    THEN getReplacements(cx, o.Buffer, Old, New, r.calls)
                    ELSE r.calls]

iterationNames(cx, how, o, Old, New) ==
  IF how = "rename" /\ cx.asserts /\ ~ConstructorAsserts(Old, New)
    THEN IterationAbort
    ELSE iterationResult(cx, how, o, Old, New,
                         addSyntacticRenameRanges(cx, o, Old))

\* One iteration of the loop of syntacticRename / findSyntacticRenameRanges:
\* what the consumer's accept() receives, the diagnostic raised, or abort.
renameIteration(asserts, garbage, how, o, Old) ==
  iterationNames(Context(Old.labels, asserts, garbage), how, o, Old,
                 DeclNameViewer(o.NewName))

\* resolveRenameLocations and the size check that follows it.
ResolveRenameLocations ==
  /\ pc = "start"
  /\ \E d \in {resolveRenameLocations(RenameLocs)} :
       IF d # "ok"
         THEN /\ diags' = Append(diags, d)
              /\ ret' = "failure"
              /\ pc' = "done"
         ELSE /\ pc' = "loop"
              /\ UNCHANGED <<diags, ret>>
  /\ UNCHANGED <<AssertsEnabled, RenameLocs, entry, index, accepted>>
  /\ UNCHANGED asyncVars

\* One iteration of "for (const RenameLoc &Rename : RenameLocs)".
RenameOccurrence ==
  /\ pc = "loop"
  /\ index < Len(RenameLocs)
  /\ \E garbage \in GarbageValues :
       \E it \in {renameIteration(AssertsEnabled, garbage, entry,
                                  RenameLocs[index + 1],
                                  DeclNameViewer(RenameLocs[index + 1].OldName))} :
         IF it.abort
           THEN /\ pc' = "abort"
                /\ UNCHANGED <<index, accepted, diags>>
           ELSE /\ pc' = "loop"
                /\ index' = index + 1
                /\ accepted' = Append(accepted,
                                      [type |-> it.type, edits |-> it.edits,
                                       calls |-> it.calls])
                /\ diags' = IF it.type = "Mismatch"
                              THEN Append(diags, "mismatched_rename")
                              ELSE diags
  /\ UNCHANGED <<AssertsEnabled, RenameLocs, entry, ret>>
  /\ UNCHANGED asyncVars

\* "return false" after the loop.
RenameReturn ==
  /\ pc = "loop"
  /\ index = Len(RenameLocs)
  /\ ret' = "success"
  /\ pc' = "done"
  /\ UNCHANGED <<AssertsEnabled, RenameLocs, entry, index, accepted, diags>>
  /\ UNCHANGED asyncVars

NextRename == ResolveRenameLocations \/ RenameOccurrence \/ RenameReturn

(***************************************************************************)
(* Inputs.  The NameMatcher that resolves a location to ranges is outside  *)
(* this file; an occurrence is laid out as source text from its base name  *)
(* and label texts, and the ranges are the places of those texts.          *)
(***************************************************************************)

\* Number of RenameLocs of one request.
MaxLocs == 2
\* Number of label ranges of one occurrence.
MaxLabels == 3

foo == <<"f", "o", "o">>
bar == <<"b", "a", "r">>
baz == <<"b", "a", "z">>
EscapedFoo == <<Backtick>> \o foo \o <<Backtick>>

RECURSIVE LabelsText(_)
LabelsText(labels) ==
  IF labels = <<>> THEN <<>>
  ELSE (IF Head(labels) = <<>> THEN <<"_">> ELSE Head(labels)) \o <<":">>
       \o LabelsText(Tail(labels))

\* The spelling base(l1:l2:) of a compound name.
NameText(base, labels) == base \o <<"(">> \o LabelsText(labels) \o <<")">>

DigitOf(i) == <<CHOOSE d \in Digits : d = ToString(i)>>

\* The text before and after the label at 0-based position i of n labels.
PieceBefore(i, type, trailing) ==
  IF trailing THEN <<" ">>
  ELSE IF i = 0 THEN <<"(">>
  ELSE IF type = "Selector" THEN <<>>
  ELSE <<",", " ">>

PieceAfter(i, last, type, trailing, label) ==
  IF trailing
    THEN (IF label # <<>> THEN <<":", " ">> ELSE <<>>) \o <<"{", "}">>
    ELSE (CASE type = "CallArg" -> DigitOf(i + 1)
            [] type = "Selector" -> <<":">>
            [] OTHER -> <<":", " ", "T">>)
         \o (IF last THEN <<")">> ELSE <<>>)

RECURSIVE layout(_, _, _, _, _, _)
layout(buf, ranges, LabelTexts, i, type, ft) ==
  IF i >= Len(LabelTexts) THEN [Buffer |-> buf, LabelRanges |-> ranges]
  ELSE
    LET label == LabelTexts[i + 1]
        trailing == ft # None /\ i >= ft
        leading == IF ft = None THEN Len(LabelTexts) ELSE ft
        before == PieceBefore(i, type, trailing)
        after == PieceAfter(i, i = leading - 1, type, trailing, label)
    IN layout(buf \o before \o label \o after,
              Append(ranges, Range(Len(buf) + Len(before), Len(label))),
              LabelTexts, i + 1, type, ft)

\* A RenameLoc together with the ResolvedLoc the NameMatcher returns for it.
Occurrence(OldName, NewName, Usage, IsFunctionLike, IsNonProtocolType, Region, RangeValid, BaseText, LabelTexts, LabelType, FirstTrailingLabel) ==
  LET src == layout(BaseText, <<>>, LabelTexts, 0, LabelType, FirstTrailingLabel)
  IN [OldName |-> OldName, NewName |-> NewName, Usage |-> Usage,
      IsFunctionLike |-> IsFunctionLike, IsNonProtocolType |-> IsNonProtocolType,
      NodeIsNull |-> Region = "Comment",
      IsStringLiteral |-> Region = "String",
      IsInSelector |-> Region = "Selector",
      IsActive |-> Region = "ActiveCode",
      RangeValid |-> RangeValid,
      Buffer |-> src.Buffer,
      Range |-> Range(0, Len(BaseText)),
      LabelRanges |-> src.LabelRanges,
      LabelType |-> LabelType,
      FirstTrailingLabel |-> FirstTrailingLabel]

\* All sequences over S of length 0..n
SeqsUpTo(S, n) == UNION {[1..k -> S] : k \in 0..n}

RenameInit(locs, entries) ==
  /\ AssertsEnabled \in BOOLEAN
  /\ RenameLocs \in locs
  /\ entry \in entries
  /\ pc = "start"
  /\ index = 0
  /\ accepted = <<>>
  /\ diags = <<>>
  /\ ret = "none"
  /\ conv = <<>>
  /\ hadAnyError = FALSE
  /\ request = "none"
  /\ edits = <<>>
  /\ uses = <<>>
  /\ locals = "none"

(***************************************************************************)
(* Requests whose names are valid or not: lists of up to MaxLocs           *)
(* occurrences of the call foo(a: 1).                                      *)
(***************************************************************************)

OldNameTexts ==
  { NameText(foo, <<<<"a">>>>),               \* foo(a:)
    foo \o <<"(", "a", ":">>,                 \* foo(a:   no closing paren
    foo }                                     \* foo

NewNameTexts ==
  { NameText(bar, <<<<"x">>>>),               \* bar(x:)
    <<>>,                                     \* no new name
    NameText(<<"1">>, <<<<"x">>>>),           \* 1(x:)    base is no identifier
    NameText(bar, <<<<"1">>>>),               \* bar(1:)  label is no identifier
    NameText(bar, <<<<"x">>, <<"y">>>>),      \* bar(x:y:)
    bar }                                     \* bar

NameOccurrences ==
  { Occurrence(old, new, "Call", fl, FALSE, "ActiveCode", TRUE, foo,
               <<<<"a", ":", " ">>>>, "CallArg", None) :
      old \in OldNameTexts, new \in NewNameTexts, fl \in BOOLEAN }

NameLocs == UNION {[1..k -> NameOccurrences] : k \in 1..MaxLocs}

InitNames == RenameInit(NameLocs, {"rename"})

SpecNames == InitNames /\ [][NextRename]_vars

\* The RenameLoc of the request that accept() call number i answers.
LocOf(i) == RenameLocs[i]
OldOf(i) == DeclNameViewer(RenameLocs[i].OldName)
NewOf(i) == DeclNameViewer(RenameLocs[i].NewName)

\* A RenameLoc with an invalid old name, an invalid new name or a new name
\* of another part count.
NameIsRejectable(o) ==
  \/ ~DeclNameViewer(o.OldName).valid
  \/ ~NewNameIsValid(DeclNameViewer(o.NewName))
  \/ partsCount(DeclNameViewer(o.NewName)) # partsCount(DeclNameViewer(o.OldName))

\* C4: if any RenameLoc of the list has an invalid old name, an invalid new
\* name or a new name whose part count differs from the old name's, the
\* consumer is never called and syntacticRename does not return success.
C4_InvalidNameStopsRename ==
  (\E i \in 1..Len(RenameLocs) : NameIsRejectable(RenameLocs[i]))
    => accepted = <<>> /\ ret # "success" /\ pc # "abort"

(***************************************************************************)
(* Declarations, references and selectors of foo(a:b:): one occurrence     *)
(* with up to MaxParams label ranges, matched in strict mode.              *)
(***************************************************************************)

\* Number of label ranges of a declaration or selector occurrence.
MaxParams == 2

EscapedA == <<Backtick, "a", Backtick>>

ParamTexts == {<<"a">>, <<"b">>, <<"a", " ", "b">>, EscapedA}
SelectorTexts == {<<"a">>, <<"b">>, <<"_">>, EscapedA}

DeclLabelTexts(type) ==
  CASE type = "None" -> {<<>>}
    [] type = "Selector" -> SeqsUpTo(SelectorTexts, MaxParams)
    [] OTHER -> SeqsUpTo(ParamTexts, MaxParams)

fooab == NameText(foo, <<<<"a">>, <<"b">>>>)

\* (IsFunctionLike, IsNonProtocolType)
DeclKinds == {<<TRUE, FALSE>>, <<FALSE, FALSE>>, <<FALSE, TRUE>>}

\* (LabelType, label texts) of the occurrences in code.
DeclShapes ==
  UNION { {<<type, labels>> : labels \in DeclLabelTexts(type)} :
            type \in {"None", "Param", "NoncollapsibleParam", "Selector"} }

RenamePairs == {<<fooab, NameText(bar, <<<<"x">>, <<>>>>)>>, <<fooab, fooab>>}
Usages == {"Call", "Definition", "Reference", "Unknown"}

StrictOccurrences ==
  { Occurrence(n[1], n[2], usage, k[1], k[2], region, TRUE, base, shape[2],
               shape[1], None) :
      n \in RenamePairs, usage \in Usages, k \in DeclKinds,
      region \in {"ActiveCode", "InactiveCode", "Selector"},
      base \in {foo, EscapedFoo, baz}, shape \in DeclShapes }
  \cup
  \* the name in a comment or a string literal, and a location the
  \* NameMatcher could not resolve
  { Occurrence(n[1], n[2], usage, k[1], k[2], region[1], region[2], foo, <<>>,
               "None", None) :
      n \in RenamePairs, usage \in Usages, k \in DeclKinds,
      region \in {<<"Comment", TRUE>>, <<"String", TRUE>>,
                  <<"ActiveCode", FALSE>>} }

StrictLocs == {<<o>> : o \in StrictOccurrences}

InitStrict == RenameInit(StrictLocs, {"rename"})

SpecStrict == InitStrict /\ [][NextRename]_vars

\* Strict mode: the labels are handled and the occurrence is no call site.
StrictMode(o, Old) == HandleLabels(o, Old) /\ ~isCallSite(o, Old)

\* The label ranges differ from the old name's labels in number, or one of
\* them fails to match the old label at its position.
LabelsDiffer(o, Old) ==
  \/ Len(o.LabelRanges) # Len(Old.labels)
  \/ \E j \in 1..Len(o.LabelRanges) :
       ~labelRangeMatches(o.Buffer, o.LabelRanges[j], o.LabelType,
                          Old.labels[j])

\* C2: in strict mode, an occurrence whose label ranges differ from the old
\* name's labels in number or content hands the consumer no edit at all,
\* whatever its usage kind.
C2_StrictMismatchAbortsOccurrence ==
  \A i \in 1..Len(accepted) :
    StrictMode(LocOf(i), OldOf(i)) /\ LabelsDiffer(LocOf(i), OldOf(i))
      => accepted[i].edits = <<>>

\* C3: an occurrence classified Unmatched gives the consumer an empty
\* replacement list and raises no diagnostic.
C3_UnmatchedIsSkipped ==
  \A i \in 1..Len(accepted) :
    accepted[i].type = "Unmatched" => accepted[i].edits = <<>> /\ diags = <<>>

\* The occurrence matches the old name: its region is neither Mismatch nor
\* Unmatched.
OccurrenceMatches(i) == accepted[i].type \notin {"Mismatch", "Unmatched"}

\* C6: renaming to a new name equal to the old name emits zero replacements
\* for every occurrence that matches the name.
C6_SameNameNoEdits ==
  \A i \in 1..Len(accepted) :
    LocOf(i).NewName = LocOf(i).OldName /\ OccurrenceMatches(i)
      => accepted[i].edits = <<>>

(***************************************************************************)
(* Call sites: one call of foo with up to MaxLabels arguments, the last    *)
(* ones trailing closures, matched in lenient mode.                        *)
(***************************************************************************)

CommentedA == <<"a", " ", "/", "*", "c", "*", "/", ":", " ">>

SpacedA == <<"a", " ", ":", " ">>

\* The label spans of parenthesised arguments: none, "a: ", "b: ", "a : ",
\* "a /*c*/: " and the escaped label with its colon.
ArgTexts == {<<>>, <<"a", ":", " ">>, <<"b", ":", " ">>, SpacedA, CommentedA,
             EscapedA \o <<":", " ">>}

\* The labels of the trailing closures after the first one.
TrailingTexts == {<<>>, <<"b">>, <<"_">>}

\* The first trailing closure carries no label.
TrailingShapes(m) ==
  IF m = 0 THEN {<<>>}
  ELSE {<<<<>>>> \o rest : rest \in [1..(m - 1) -> TrailingTexts]}

\* (label texts, FirstTrailingLabel) of calls with k parenthesised arguments
\* and m trailing closures.
CallShapes ==
  UNION { { <<lead \o trail, IF km[2] = 0 THEN None ELSE km[1]>> :
              lead \in [1..km[1] -> ArgTexts], trail \in TrailingShapes(km[2]) } :
            km \in {x \in (0..MaxLabels) \X (0..MaxLabels) :
                      x[1] + x[2] <= MaxLabels} }

CallPairs ==
  { <<fooab, NameText(bar, <<<<"x">>, <<>>>>)>>,
    <<fooab, fooab>>,
    <<NameText(foo, <<<<>>>>), NameText(bar, <<<<"x">>>>)>>,
    <<NameText(foo, <<<<"a">>, <<>>>>), NameText(bar, <<<<>>, <<"y">>>>)>>,
    <<NameText(foo, <<<<>>, <<"a">>>>), NameText(bar, <<<<"x">>, <<"y">>>>)>>,
    <<NameText(foo, <<>>), NameText(bar, <<>>)>>,
    <<NameText(foo, <<<<"a">>, <<>>, <<"b">>>>),
      NameText(bar, <<<<"x">>, <<"y">>, <<>>>>)>> }

CallOccurrences ==
  { Occurrence(n[1], n[2], u[1], TRUE, FALSE, u[2], TRUE, foo, shape[1],
               "CallArg", shape[2]) :
      n \in CallPairs,
      u \in {<<"Call", "ActiveCode">>, <<"Unknown", "InactiveCode">>},
      shape \in CallShapes }

CallLocs == {<<o>> : o \in CallOccurrences}

InitCallSite == RenameInit(CallLocs, {"rename", "find"})

SpecCallSite == InitCallSite /\ [][NextRename]_vars

\* The call foo(a: 1, b: 2) of Scenario 1, renamed foo(a:b:) -> bar(x:_:).
Scenario1 ==
  Occurrence(fooab, NameText(bar, <<<<"x">>, <<>>>>), "Call", TRUE, FALSE,
             "ActiveCode", TRUE, foo,
             <<<<"a", ":", " ">>, <<"b", ":", " ">>>>, "CallArg", None)

\* The doRenameLabel calls of accept() call i that lie in label range j.
CallsIn(i, j) ==
  {k \in 1..Len(accepted[i].calls) :
     /\ accepted[i].calls[k].index # None
     /\ LocOf(i).LabelRanges[j].start <= accepted[i].calls[k].range.start
     /\ RangeEnd(accepted[i].calls[k].range) <= RangeEnd(LocOf(i).LabelRanges[j])}

\* The old-label index assigned to label j of occurrence i, or None.
Consumed(i, j) ==
  IF CallsIn(i, j) = {} THEN None
  ELSE accepted[i].calls[CHOOSE k \in CallsIn(i, j) : TRUE].index

\* The occurrence went through lenient matching.
IsLenient(i) ==
  HandleLabels(LocOf(i), OldOf(i)) /\ isCallSite(LocOf(i), OldOf(i))

\* C7: in every successful lenient match the old-label indices assigned to
\* the occurrence's labels are strictly increasing in the labels' syntactic
\* order, so no index is assigned to two labels.
C7_IndicesStrictlyIncrease ==
  \A i \in 1..Len(accepted) :
    IsLenient(i) /\ OccurrenceMatches(i)
      => \A p, q \in 1..Len(LocOf(i).LabelRanges) :
           p < q /\ Consumed(i, p) # None /\ Consumed(i, q) # None
             => Consumed(i, p) < Consumed(i, q)

\* Number of non-trailing labels of occurrence i.
NumLeading(i) ==
  IF LocOf(i).FirstTrailingLabel = None THEN Len(LocOf(i).LabelRanges)
  ELSE LocOf(i).FirstTrailingLabel

\* The old-label indices the non-trailing labels before position p consumed.
ConsumedBefore(i, p) == {Consumed(i, q) : q \in 1..(p - 1)} \ {None}

\* NameIndex when the loop reaches non-trailing label p: the old label after
\* the last one consumed by the labels before it.
NextIndex(i, p) ==
  IF ConsumedBefore(i, p) = {} THEN 0 ELSE MaxOf(ConsumedBefore(i, p)) + 1

\* OldNames.size() after the trailing closures have been matched.
SizeLeft(i) ==
  IF LocOf(i).FirstTrailingLabel = None THEN Len(OldOf(i).labels)
  ELSE matchTrailing(Context(OldOf(i).labels, AssertsEnabled, <<>>),
                     LocOf(i).Buffer,
                     SubSeq(LocOf(i).LabelRanges, NumLeading(i) + 1,
                            Len(LocOf(i).LabelRanges)),
                     Len(LocOf(i).LabelRanges) - NumLeading(i) - 1,
                     Len(OldOf(i).labels), <<>>).size

\* The old label at 0-based index k exists, is left by the trailing closures
\* and is empty.
OldLabelIsEmpty(i, k) ==
  /\ k < Len(OldOf(i).labels)
  /\ ~SizeGE(k, SizeLeft(i))
  /\ OldOf(i).labels[k + 1] = <<>>

EmptyLeading(i) ==
  {p \in 1..NumLeading(i) : LocOf(i).LabelRanges[p].len = 0}

ReplaceRange(buf, e) ==
  SubSeq(buf, 1, e.range.start) \o e.text
    \o SubSeq(buf, RangeEnd(e.range) + 1, Len(buf))

LastEdit(es) == CHOOSE e \in es : \A f \in es : f.range.start <= e.range.start

RECURSIVE ApplyEdits(_, _)
\* The text after applying a set of non-overlapping Replacements, as the
\* edit consumer does, from the last one in the text to the first.
ApplyEdits(buf, es) ==
  IF es = {} THEN buf
  ELSE ApplyEdits(ReplaceRange(buf, LastEdit(es)), es \ {LastEdit(es)})

\* The Replacements of accept() call i that lie in label range j, with their
\* offsets counted from the start of that range.
EditsIn(i, j) ==
  { [range |-> Range(accepted[i].edits[k].range.start
                       - LocOf(i).LabelRanges[j].start,
                     accepted[i].edits[k].range.len),
     text |-> accepted[i].edits[k].text] :
      k \in {k \in 1..Len(accepted[i].edits) :
               /\ LocOf(i).LabelRanges[j].start <= accepted[i].edits[k].range.start
               /\ RangeEnd(accepted[i].edits[k].range)
                    <= RangeEnd(LocOf(i).LabelRanges[j])} }

SpanText(i, j) == RangeStr(LocOf(i).Buffer, LocOf(i).LabelRanges[j])

\* The text of label span j of occurrence i after the rename.
SpanResult(i, j) == ApplyEdits(SpanText(i, j), EditsIn(i, j))

\* The colon of a label span with the whitespace around it: what follows the
\* last non-blank character before the first colon.
ColonRemainder(span) ==
  SubSeq(span, RTrimSize(SubSeq(span, 1, FindChar(span, ":"))) + 1, Len(span))

HasComment(span) == \E k \in 1..Len(span) : span[k] = "/"

\* The parenthesised arguments of a renamed call that were matched to an
\* old label which both names have.
RenamedArgs(i) ==
  IF entry = "rename" /\ IsLenient(i) /\ OccurrenceMatches(i)
    THEN {j \in 1..NumLeading(i) :
            /\ Consumed(i, j) # None
            /\ Consumed(i, j) < Len(OldOf(i).labels)
            /\ Consumed(i, j) < Len(NewOf(i).labels)}
    ELSE {}

OldLabel(i, j) == OldOf(i).labels[Consumed(i, j) + 1]
NewLabel(i, j) == NewOf(i).labels[Consumed(i, j) + 1]

\* The identifier a label span begins with, backticks included.
LeadingIdentifier(span) ==
  IF span[1] = Backtick
    THEN SubSeq(span, 1, LexTokenLen(span, 1) + 2)
    ELSE SubSeq(span, 1, LexTokenLen(span, 0))

\* C9: renaming a call-argument label whose span has a comment between the
\* identifier and the colon replaces the identifier only; the comment and
\* the rest of the span stay as they are.
C9_CommentPreserved ==
  \A i \in 1..Len(accepted) : \A j \in RenamedArgs(i) :
    HasComment(SpanText(i, j)) /\ NewLabel(i, j) # <<>>
      => SpanResult(i, j) =
           NewLabel(i, j) \o SubSeq(SpanText(i, j),
                                    Len(LeadingIdentifier(SpanText(i, j))) + 1,
                                    Len(SpanText(i, j)))

Scenario1Result ==
  <<"b", "a", "r", "(", "x", ":", " ", "1", ",", " ", "2", ")">>

\* C10: at a call site a non-empty old label renamed to an empty one loses
\* label and colon remainder, an empty old label renamed to a non-empty one
\* becomes "label: ", and a non-empty one renamed to a non-empty one gets
\* the new label in front of its own colon remainder; foo(a: 1, b: 2)
\* renamed foo(a:b:) -> bar(x:_:) becomes bar(x: 1, 2).
C10_CallLabelEdits ==
  /\ \A i \in 1..Len(accepted) : \A j \in RenamedArgs(i) :
       ~HasComment(SpanText(i, j))
         => SpanResult(i, j) =
              CASE OldLabel(i, j) # <<>> /\ NewLabel(i, j) = <<>> -> <<>>
                [] OldLabel(i, j) = <<>> /\ NewLabel(i, j) # <<>> ->
                     NewLabel(i, j) \o <<":", " ">>
                [] OldLabel(i, j) # <<>> /\ NewLabel(i, j) # <<>> ->
                     NewLabel(i, j) \o ColonRemainder(SpanText(i, j))
                [] OTHER -> SpanText(i, j)
  /\ RenameLocs = <<Scenario1>> /\ entry = "rename" /\ Len(accepted) = 1
       => ApplyEdits(Scenario1.Buffer,
                     {accepted[1].edits[k] : k \in 1..Len(accepted[1].edits)})
            = Scenario1Result

\* Scenario 1 has been renamed.
C10_Scenario1Renamed ==
  /\ RenameLocs = <<Scenario1>> /\ entry = "rename" /\ Len(accepted) = 1
  /\ accepted[1].type = "ActiveCode"
  /\ RenamedArgs(1) = {1, 2}

\* The doRenameLabel calls of kind kind made for label range j.
CallsOfKind(i, j, kind) ==
  {accepted[i].calls[k] : k \in {k \in CallsIn(i, j) : accepted[i].calls[k].kind = kind}}

\* The label ranges of a call site that hold a colon and were split.
SplitSpans(i) ==
  IF IsLenient(i)
    THEN {j \in 1..NumLeading(i) :
            FindChar(SpanText(i, j), ":") # npos /\ CallsIn(i, j) # {}}
    ELSE {}

\* C11: splitAndRenameCallArg splits a call-argument label span with a colon
\* into one label range and one remainder range; the label range starts
\* where the span starts, the remainder starts where the label ends and ends
\* where the span ends, and the two texts one after the other are the span.
C11_SplitReconstructsSpan ==
  \A i \in 1..Len(accepted) : \A j \in SplitSpans(i) :
    /\ Cardinality(CallsIn(i, j)) = 2
    /\ \E Arg \in CallsOfKind(i, j, "CallArgumentLabel") :
       \E Rest \in CallsOfKind(i, j, "CallArgumentColon") :
         /\ Arg.range.start = LocOf(i).LabelRanges[j].start
         /\ RangeEnd(Arg.range) = Rest.range.start
         /\ RangeEnd(Rest.range) = RangeEnd(LocOf(i).LabelRanges[j])
         /\ RangeStr(LocOf(i).Buffer, Arg.range)
              \o RangeStr(LocOf(i).Buffer, Rest.range) = SpanText(i, j)

\* A span with a blank before its colon has been split.
C11_SpacedLabelSplit ==
  \E i \in 1..Len(accepted) : \E j \in SplitSpans(i) : SpanText(i, j) = SpacedA

(***************************************************************************)
(* AsyncConverter.  The function or call being converted is the sequence   *)
(* of nodes the walk meets at the top level: plain statements and calls of *)
(* functions with a completion handler.  Buffer is the sequence of pieces  *)
(* written to OS.                                                          *)
(***************************************************************************)

\* Number of nodes of a converted body.
MaxNodes == 2
\* Number of calls a client makes on one AsyncConverter.
MaxApiCalls == 3

Node(kind, Type, classifyError) ==
  [kind |-> kind, Type |-> Type, classifyError |-> classifyError]

\* A statement; a call whose completion-handler argument is missing; a call
\* whose closure has another number of parameters than the handler; a call
\* with a closure, whose body the CallbackClassifier can classify or not.
CallNodes ==
  { Node("missing_callback_arg", "PARAMS", FALSE),
    Node("mismatched_callback_args", "PARAMS", FALSE) }
  \cup { Node("closure", t, e) : t \in {"PARAMS", "RESULT"}, e \in BOOLEAN }

Nodes == {Node("stmt", "PARAMS", FALSE)} \cup CallNodes

\* The converter's view of the DiagnosticEngine and of its own Buffer.
ConvState(Buffer, had, ds) == [Buffer |-> Buffer, hadAnyError |-> had, diags |-> ds]

\* DiagEngine.diagnose(Loc, diag::d): every diagnostic here is an error.
diagnose(st, d) ==
  [st EXCEPT !.hadAnyError = TRUE, !.diags = Append(st.diags, d)]

write(st, piece) == [st EXCEPT !.Buffer = Append(st.Buffer, piece)]

\* addHoistedClosureCallback from "if (DiagEngine.hadAnyError())" on.
afterClassify(st, n) ==
  IF st.hadAnyError
    THEN IF n.Type # "PARAMS" THEN st
         ELSE write([st EXCEPT !.hadAnyError = FALSE], "fallback")
    ELSE write(st, "await")

addHoistedClosureCallback(st, n) ==
  afterClassify(IF n.classifyError
                  THEN diagnose(st, "unknown_callback_conditions")
                  ELSE st,
                n)

\* walkToExprPre / addHoistedCallback for one node of the walk.
addNode(st, n) ==
  CASE n.kind = "stmt" -> write(st, "stmt")
    [] n.kind = "missing_callback_arg" -> diagnose(st, "missing_callback_arg")
    [] n.kind = "mismatched_callback_args" ->
         diagnose(st, "mismatched_callback_args")
    [] n.kind = "closure" -> addHoistedClosureCallback(st, n)

RECURSIVE convertNode(_, _)
convertNode(st, nodes) ==
  IF nodes = <<>> THEN st
  ELSE convertNode(addNode(st, Head(nodes)), Tail(nodes))

\* The work of convert() after its assertion: addFuncDecl and the body for
\* a function, the call itself for a call.
convert(st, start) ==
  IF start.isFunc
    THEN IF start.hasBody
           THEN convertNode(write(st, "funcdecl"), start.nodes)
           ELSE write(st, "funcdecl")
    ELSE convertNode(st, start.nodes)

canCreateLegacyBody(start) == start.isFunc /\ start.hasBody

\* The work of createLegacyBody() after its assertion.
createLegacyBody(st, start) ==
  IF canCreateLegacyBody(start) THEN write(st, "legacybody") ELSE st

\* assert(Buffer.empty() && "AsyncConverter can only be used once")
UsedOnceAssertFails(asserts, Buffer) == asserts /\ Buffer # <<>>

\* What the converted code starts from.
StartNode(isFunc, hasBody, nodes) ==
  [isFunc |-> isFunc, hasBody |-> hasBody, nodes |-> nodes]

\* A call to convert, and functions with and without a body.
StartNodes ==
  { StartNode(FALSE, FALSE, <<c>>) : c \in CallNodes }
  \cup { StartNode(TRUE, TRUE, nodes) : nodes \in SeqsUpTo(Nodes, MaxNodes) }
  \cup { StartNode(TRUE, FALSE, <<>>) }

renameOnlyVars == <<RenameLocs, entry, index, accepted, locals>>


\* One call on the SourceEditConsumer.
Edit(op, text) == [op |-> op, text |-> text]

Request(op, start, EnableExperimentalConcurrency) ==
  [op |-> op, start |-> start,
   EnableExperimentalConcurrency |-> EnableExperimentalConcurrency]

\* The requests the three refactorings are applicable to.
Requests ==
  { Request("ConvertCallToAsyncAlternative", n, FALSE) :
      n \in {n \in StartNodes : ~n.isFunc} }
  \cup { Request("ConvertToAsync", n, FALSE) : n \in {n \in StartNodes : n.isFunc} }
  \cup { Request("AddAsyncAlternative", n, e) :
           n \in {n \in StartNodes : n.isFunc}, e \in BOOLEAN }

AsyncInit(requests, at) ==
  /\ AssertsEnabled \in BOOLEAN
  /\ request \in requests
  /\ pc = at
  /\ conv = <<>>
  /\ uses = <<>>
  /\ hadAnyError = FALSE
  /\ diags = <<>>
  /\ edits = <<>>
  /\ ret = "none"
  /\ RenameLocs = <<>>
  /\ entry = "none"
  /\ index = 0
  /\ accepted = <<>>
  /\ locals = "none"

\* A performChange that hands the converted text to the consumer before it
\* looks at the result of convert().
PerformConvert_EditsFirst ==
  /\ pc = "start"
  /\ \E st \in {convert(ConvState(<<>>, hadAnyError, diags), request.start)} :
       /\ conv' = <<st.Buffer>>
       /\ uses' = <<1>>
       /\ hadAnyError' = st.hadAnyError
       /\ diags' = st.diags
       /\ edits' = Append(edits, Edit("accept", st.Buffer))
       /\ ret' = IF st.hadAnyError THEN "failure" ELSE ret
       /\ pc' = IF st.hadAnyError THEN "done"
                ELSE IF request.op = "AddAsyncAlternative" THEN "deprecate"
                ELSE "replace"
  /\ UNCHANGED <<AssertsEnabled, request>>
  /\ UNCHANGED renameOnlyVars

\* performChange up to "if (!Converter.convert()) return true;".
PerformConvert ==
  /\ pc = "start"
  /\ \E st \in {convert(ConvState(<<>>, hadAnyError, diags), request.start)} :
       /\ conv' = <<st.Buffer>>
       /\ uses' = <<1>>
       /\ hadAnyError' = st.hadAnyError
       /\ diags' = st.diags
       /\ ret' = IF st.hadAnyError THEN "failure" ELSE ret
       /\ pc' = IF st.hadAnyError THEN "done"
                ELSE IF request.op = "AddAsyncAlternative" THEN "deprecate"
                ELSE "replace"
  /\ UNCHANGED <<AssertsEnabled, request, edits>>
  /\ UNCHANGED renameOnlyVars

\* "Converter.replace(...); return false;" of convert-call and
\* convert-whole-function.
ReplaceAndReturn ==
  /\ pc = "replace"
  /\ edits' = Append(edits, Edit("accept", conv[1]))
  /\ conv' = [conv EXCEPT ![1] = <<>>]
  /\ ret' = "success"
  /\ pc' = "done"
  /\ UNCHANGED <<AssertsEnabled, request, uses, hadAnyError, diags>>
  /\ UNCHANGED renameOnlyVars

\* "Deprecate the synchronous function" and the handler attribute.
Deprecate ==
  /\ pc = "deprecate"
  /\ edits' = edits \o <<Edit("accept", <<"@available">>)>>
                \o (IF request.EnableExperimentalConcurrency
                      THEN <<Edit("accept", <<"@completionHandlerAsync">>)>>
                      ELSE <<>>)
  /\ pc' = "legacy"
  /\ UNCHANGED <<AssertsEnabled, request, conv, uses, hadAnyError, diags, ret>>
  /\ UNCHANGED renameOnlyVars

\* The LegacyBodyCreator: createLegacyBody() and, when it returns true,
\* replace(FD->getBody()).
LegacyBody ==
  /\ pc = "legacy"
  /\ \E st \in {createLegacyBody(ConvState(<<>>, hadAnyError, diags),
                                 request.start)} :
       /\ edits' = IF canCreateLegacyBody(request.start)
                     THEN Append(edits, Edit("accept", st.Buffer))
                     ELSE edits
       /\ conv' = Append(conv, <<>>)
  /\ uses' = Append(uses, 1)
  /\ pc' = "insert"
  /\ UNCHANGED <<AssertsEnabled, request, hadAnyError, diags, ret>>
  /\ UNCHANGED renameOnlyVars

\* "Converter.insertAfter(FD, EditConsumer); return false;"
InsertAlternative ==
  /\ pc = "insert"
  /\ edits' = edits \o <<Edit("insertAfter", <<"\n\n">>),
                         Edit("insertAfter", conv[1])>>
  /\ conv' = [conv EXCEPT ![1] = <<>>]
  /\ ret' = "success"
  /\ pc' = "done"
  /\ UNCHANGED <<AssertsEnabled, request, uses, hadAnyError, diags>>
  /\ UNCHANGED renameOnlyVars

NextAsync ==
  \/ PerformConvert
  \/ ReplaceAndReturn
  \/ Deprecate
  \/ LegacyBody
  \/ InsertAlternative

InitAsync == AsyncInit(Requests, "start")

SpecAsync == InitAsync /\ [][NextAsync]_vars

\* C1: whenever performChange of convert-call, convert-whole-function or
\* add-async-alternative reports failure, the edit consumer has received no
\* edit at any point of the operation.
C1_FailureMeansNoEdits == ret = "failure" => edits = <<>>

\* add-async-alternative has failed on a diagnosed call.
C1_AlternativeFailed ==
  /\ request.op = "AddAsyncAlternative"
  /\ pc = "done" /\ ret = "failure" /\ diags # <<>>

(***************************************************************************)
(* One AsyncConverter instance under a client that calls its public        *)
(* functions in any order, up to MaxApiCalls times each kind.              *)
(***************************************************************************)

\* convert() called by the client.
ApiConvert ==
  /\ pc = "api"
  /\ uses[1] < MaxApiCalls
  /\ IF UsedOnceAssertFails(AssertsEnabled, conv[1])
       THEN /\ pc' = "abort"
            /\ UNCHANGED <<conv, uses, hadAnyError, diags, ret>>
       ELSE \E st \in {convert(ConvState(conv[1], hadAnyError, diags),
                               request.start)} :
              /\ conv' = <<st.Buffer>>
              /\ uses' = <<uses[1] + 1>>
              /\ hadAnyError' = st.hadAnyError
              /\ diags' = st.diags
              /\ ret' = IF st.hadAnyError THEN "false" ELSE "true"
              /\ pc' = pc
  /\ UNCHANGED <<AssertsEnabled, request, edits>>
  /\ UNCHANGED renameOnlyVars

\* createLegacyBody() called by the client.
ApiCreateLegacyBody ==
  /\ pc = "api"
  /\ uses[1] < MaxApiCalls
  /\ IF UsedOnceAssertFails(AssertsEnabled, conv[1])
       THEN /\ pc' = "abort"
            /\ UNCHANGED <<conv, uses, ret>>
       ELSE \E st \in {createLegacyBody(ConvState(conv[1], hadAnyError, diags),
                                        request.start)} :
              /\ conv' = <<st.Buffer>>
              /\ uses' = <<uses[1] + 1>>
              /\ ret' = IF canCreateLegacyBody(request.start)
                          THEN "true" ELSE "false"
              /\ pc' = pc
  /\ UNCHANGED <<AssertsEnabled, request, edits, hadAnyError, diags>>
  /\ UNCHANGED renameOnlyVars

\* replace() called by the client.
ApiReplace ==
  /\ pc = "api"
  /\ Len(edits) < MaxApiCalls
  /\ edits' = Append(edits, Edit("accept", conv[1]))
  /\ conv' = <<<<>>>>
  /\ UNCHANGED <<AssertsEnabled, request, pc, uses, hadAnyError, diags, ret>>
  /\ UNCHANGED renameOnlyVars

\* insertAfter() called by the client.
ApiInsertAfter ==
  /\ pc = "api"
  /\ Len(edits) < MaxApiCalls
  /\ edits' = edits \o <<Edit("insertAfter", <<"\n\n">>),
                         Edit("insertAfter", conv[1])>>
  /\ conv' = <<<<>>>>
  /\ UNCHANGED <<AssertsEnabled, request, pc, uses, hadAnyError, diags, ret>>
  /\ UNCHANGED renameOnlyVars

NextConverter ==
  \/ ApiConvert
  \/ ApiCreateLegacyBody
  \/ ApiReplace
  \/ ApiInsertAfter

InitConverter ==
  /\ AssertsEnabled \in BOOLEAN
  /\ request \in {Request("api", n, FALSE) : n \in StartNodes}
  /\ pc = "api"
  /\ conv = <<<<>>>>
  /\ uses = <<0>>
  /\ hadAnyError = FALSE
  /\ diags = <<>>
  /\ edits = <<>>
  /\ ret = "none"
  /\ RenameLocs = <<>>
  /\ entry = "none"
  /\ index = 0
  /\ accepted = <<>>
  /\ locals = "none"

SpecConverter == InitConverter /\ [][NextConverter]_vars

\* C5: in a build with assertions, once convert() or createLegacyBody() has
\* run on an instance, every later call of either is rejected, so that at
\* most one of them ever runs on it, also with replace() or insertAfter()
\* called in between.
C5_SingleUse == AssertsEnabled => \A k \in 1..Len(uses) : uses[k] <= 1

(***************************************************************************)
(* Types, as far as the async refactorings look at them.                   *)
(***************************************************************************)

Nominal(name) == [k |-> "Nominal", name |-> name, args |-> <<>>]
OptionalOf(T) == [k |-> "Optional", name |-> "Optional", args |-> <<T>>]
ResultOf(S, F) == [k |-> "Result", name |-> "Result", args |-> <<S, F>>]

IntTy == Nominal("Int")
VoidTy == Nominal("Void")
ErrorTy == Nominal("Error")
NeverTy == Nominal("Never")
\* The null Type()
NullType == [k |-> "Null", name |-> "null", args |-> <<>>]

isVoid(Ty) == Ty = VoidTy
isUninhabited(Ty) == Ty = NeverTy
isOptional(Ty) == Ty.k = "Optional"
isResult(Ty) == Ty.k = "Result"
\* Type::getOptionalObjectType: the null type for a type that is no Optional
getOptionalObjectType(Ty) == IF isOptional(Ty) THEN Ty.args[1] ELSE NullType
lookThroughSingleOptionalType(Ty) == IF isOptional(Ty) THEN Ty.args[1] ELSE Ty
\* ModuleDecl::conformsToProtocol(Ty, Error)
conformsToError(Ty) == Ty \in {ErrorTy, NeverTy}

\* "if (!Ty) return false; return !MD->conformsToProtocol(...).isInvalid();"
isErrorType(Ty) == IF Ty = NullType THEN FALSE ELSE conformsToError(Ty)

(***************************************************************************)
(* AsyncHandlerDesc and AsyncHandlerParamDesc.  A declaration that may be  *)
(* a completion handler is given by what get() asks of it.                 *)
(***************************************************************************)

ValueDecl(declKind, name, isFunctionType, resultIsVoid, Params, isAutoClosure) ==
  [declKind |-> declKind, name |-> name, isFunctionType |-> isFunctionType,
   resultIsVoid |-> resultIsVoid, Params |-> Params,
   isAutoClosure |-> isAutoClosure]

NoDecl == ValueDecl("null", "", FALSE, FALSE, <<>>, FALSE)

isCompletionHandlerParamName(name) == name = "completion"

HandlerDesc(Handler, Type, HasError) ==
  [Handler |-> Handler, Type |-> Type, HasError |-> HasError, Index |-> -1]

\* AsyncHandlerDesc()
InvalidDesc == HandlerDesc(NoDecl, "INVALID", FALSE)

\* A get() that strips one optional level of the last parameter's type, if
\* there is one, before it asks for the conformance to Error.
getHandlerType_LooksThroughOptional(Handler, HandlerParams) ==
  IF Len(HandlerParams) = 1 /\ isResult(HandlerParams[1])
    THEN HandlerDesc(Handler, "RESULT", ~isUninhabited(HandlerParams[1].args[2]))
  ELSE IF \E n \in 1..Len(HandlerParams) : isResult(HandlerParams[n])
    THEN InvalidDesc
  ELSE HandlerDesc(Handler, "PARAMS",
                   IF HandlerParams = <<>> THEN FALSE
                   ELSE isErrorType(lookThroughSingleOptionalType(
                          HandlerParams[Len(HandlerParams)])))

\* The part of get() that looks at the handler's parameters.
getHandlerType(Handler, HandlerParams) ==
  IF Len(HandlerParams) = 1 /\ isResult(HandlerParams[1])
    THEN HandlerDesc(Handler, "RESULT", ~isUninhabited(HandlerParams[1].args[2]))
  ELSE IF \E n \in 1..Len(HandlerParams) : isResult(HandlerParams[n])
    THEN InvalidDesc
  ELSE HandlerDesc(Handler, "PARAMS",
                   IF HandlerParams = <<>> THEN FALSE
                   ELSE isErrorType(getOptionalObjectType(
                          HandlerParams[Len(HandlerParams)])))

\* AsyncHandlerDesc::get
AsyncHandlerDesc_get(Handler, RequireName) ==
  IF Handler.declKind \notin {"Var", "Func"} THEN InvalidDesc
  ELSE IF RequireName /\ ~isCompletionHandlerParamName(Handler.name)
    THEN InvalidDesc
  ELSE IF ~Handler.isFunctionType \/ ~Handler.resultIsVoid THEN InvalidDesc
  ELSE getHandlerType(Handler, Handler.Params)

isValid(Desc) == Desc.Type # "INVALID"

\* AsyncHandlerParamDesc::find; FD is never null here.
AsyncHandlerParamDesc_find(FD, RequireAttributeOrName) ==
  IF FD.hasAsync \/ FD.hasThrows THEN InvalidDesc
  ELSE IF Len(FD.Params) = 0 \/ ~FD.resultIsVoid THEN InvalidDesc
  ELSE IF FD.Params[Len(FD.Params)].isAutoClosure THEN InvalidDesc
  ELSE [AsyncHandlerDesc_get(
          FD.Params[Len(FD.Params)],
          RequireAttributeOrName /\ ~FD.hasCompletionHandlerAsyncAttr)
        EXCEPT !.Index = Len(FD.Params) - 1]

\* AsyncHandlerDesc::params
params(Desc) == Desc.Handler.Params

\* AsyncHandlerDesc::getSuccessParams
getSuccessParams(Desc) ==
  IF Desc.HasError /\ Desc.Type = "PARAMS" THEN DropLast(params(Desc))
  ELSE params(Desc)

\* AsyncHandlerDesc::getSuccessParamAsyncReturnType
getSuccessParamAsyncReturnType(Desc, Ty) ==
  IF Desc.Type = "PARAMS"
    THEN (IF Desc.HasError THEN lookThroughSingleOptionalType(Ty) ELSE Ty)
    ELSE Ty.args[1]

\* AsyncHandlerDesc::getAsyncReturnTypes
getAsyncReturnTypes(Desc) ==
  [n \in 1..Len(getSuccessParams(Desc)) |->
     getSuccessParamAsyncReturnType(Desc, getSuccessParams(Desc)[n])]

\* AsyncHandlerDesc::willAsyncReturnVoid
willAsyncReturnVoid(Desc) ==
  \A n \in 1..Len(getSuccessParams(Desc)) :
    isVoid(getSuccessParamAsyncReturnType(Desc, getSuccessParams(Desc)[n]))

(***************************************************************************)
(* AsyncConverter::addFuncDecl.  The declaration's source is a sequence of *)
(* tokens and a SourceLoc is the 1-based place of a token in it.           *)
(***************************************************************************)

\* Number of parameters of a completion handler.
MaxHandlerParams == 3

FuncDecl(hasAsync, hasThrows, hasCompletionHandlerAsyncAttr, Params, resultIsVoid, hasBody, hasWhere) ==
  [hasAsync |-> hasAsync, hasThrows |-> hasThrows,
   hasCompletionHandlerAsyncAttr |-> hasCompletionHandlerAsyncAttr,
   Params |-> Params, resultIsVoid |-> resultIsVoid, hasBody |-> hasBody,
   hasWhere |-> hasWhere]

RECURSIVE ParamsText(_)
\* The parameters of a declaration between its parentheses.
ParamsText(Params) ==
  IF Params = <<>> THEN <<>>
  ELSE IF Len(Params) = 1 THEN <<Params[1].name>>
  ELSE <<Params[1].name, ",">> \o ParamsText(Tail(Params))

\* FD->getSourceRangeIncludingAttrs(), up to the left brace of the body.
SourceText(FD) ==
  <<"func f", "(">> \o ParamsText(FD.Params) \o <<")">>
  \o (IF FD.hasAsync THEN <<"async">> ELSE <<>>)
  \o (IF FD.hasThrows THEN <<"throws">> ELSE <<>>)
  \o (IF FD.resultIsVoid THEN <<>> ELSE <<"-> Int">>)
  \o (IF FD.hasWhere THEN <<"where">> ELSE <<>>)
  \o (IF FD.hasBody THEN <<"{">> ELSE <<>>)

LParenLoc == 2
\* Params->get(n)->getStartLoc() for the 0-based n
ParamStartLoc(n) == 2 * n + 3
\* Lexer::getLocForEndOfToken(SM, Params->get(n)->getEndLoc())
ParamEndLoc(n) == 2 * n + 4
RParenLoc(FD) == IF FD.Params = <<>> THEN 3 ELSE 2 * Len(FD.Params) + 2
\* Lexer::getLocForEndOfToken(SM, FD->getThrowsLoc())
ThrowsEndLoc(FD) == RParenLoc(FD) + (IF FD.hasAsync THEN 3 ELSE 2)
LBraceLoc(FD) == Len(SourceText(FD))

\* Type::print
TypeString(Ty) ==
  CASE Ty.k = "Optional" -> Ty.args[1].name \o "?"
    [] Ty.k = "Result" -> "Result<" \o Ty.args[1].name \o ", " \o Ty.args[2].name \o ">"
    [] OTHER -> Ty.name

RECURSIVE interleave(_)
\* llvm::interleave(ReturnTypes, print, ", ")
interleave(Types) ==
  IF Types = <<>> THEN <<>>
  ELSE IF Len(Types) = 1 THEN <<TypeString(Types[1])>>
  ELSE <<TypeString(Types[1]), ", ">> \o interleave(Tail(Types))

\* addRange(Start, End): the source from Start up to End
addRange(FD, Start, End) == SubSeq(SourceText(FD), Start, End - 1)

\* "First chunk" and "Second chunk" of addFuncDecl
addParamChunks(FD, TopHandler, LeftEndLoc) ==
  addRange(FD, 1, LeftEndLoc)
  \o addRange(FD,
              IF ~isValid(TopHandler) THEN LeftEndLoc
              ELSE IF TopHandler.Index + 1 < Len(FD.Params)
                THEN ParamStartLoc(TopHandler.Index + 1)
              ELSE RParenLoc(FD),
              RParenLoc(FD) + 1)

\* "Third chunk": async and throws
addAsyncThrows(FD, TopHandler) ==
  <<" async">>
  \o (IF FD.hasThrows \/ TopHandler.HasError THEN <<" ", "throws">> ELSE <<>>)

\* "Fourth chunk" without a handler: the rest of the declaration
addRestOfDecl(FD, RightStartLoc) ==
  addRange(FD, RightStartLoc,
           IF FD.hasBody THEN LBraceLoc(FD) ELSE RightStartLoc)

\* A return type that is put between parentheses whatever the number of
\* returned types.
addReturnType_AlwaysParenthesised(FD, TopHandler, ReturnTypes) ==
  IF ReturnTypes = <<>> THEN <<" ">>
  ELSE (IF ~willAsyncReturnVoid(TopHandler)
          THEN <<" -> ", "(">> \o interleave(ReturnTypes) \o <<")">>
          ELSE <<>>)
       \o (IF FD.hasBody THEN <<" ">> ELSE <<>>)
       \o (IF FD.hasWhere
             THEN <<"where">> \o (IF FD.hasBody THEN <<" ">> ELSE <<>>)
             ELSE <<>>)

\* "Fourth chunk" with a handler: the new return type and the where clause
addReturnType(FD, TopHandler, ReturnTypes) ==
  IF ReturnTypes = <<>> THEN <<" ">>
  ELSE (IF ~willAsyncReturnVoid(TopHandler)
          THEN <<" -> ">>
               \o (IF Len(ReturnTypes) > 1 THEN <<"(">> ELSE <<>>)
               \o interleave(ReturnTypes)
               \o (IF Len(ReturnTypes) > 1 THEN <<")">> ELSE <<>>)
          ELSE <<>>)
       \o (IF FD.hasBody THEN <<" ">> ELSE <<>>)
       \o (IF FD.hasWhere
             THEN <<"where">> \o (IF FD.hasBody THEN <<" ">> ELSE <<>>)
             ELSE <<>>)

\* AsyncConverter::addFuncDecl: what it writes to OS
addFuncDecl(FD, TopHandler) ==
  addParamChunks(FD, TopHandler,
                 IF TopHandler.Index - 1 >= 0
                   THEN ParamEndLoc(TopHandler.Index - 1)
                   ELSE LParenLoc + 1)
  \o addAsyncThrows(FD, TopHandler)
  \o (IF ~isValid(TopHandler)
        THEN addRestOfDecl(FD, IF FD.hasThrows THEN ThrowsEndLoc(FD)
                               ELSE RParenLoc(FD) + 1)
        ELSE addReturnType(FD, TopHandler, getAsyncReturnTypes(TopHandler)))

(***************************************************************************)
(* Finding the completion handler of a function and writing the async      *)
(* declaration: the declarations and requests looked at.                   *)
(***************************************************************************)

HandlerParamTypes ==
  {IntTy, OptionalOf(IntTy), VoidTy, OptionalOf(VoidTy), ErrorTy,
   OptionalOf(ErrorTy), ResultOf(IntTy, ErrorTy), ResultOf(IntTy, NeverTy),
   ResultOf(VoidTy, ErrorTy)}

\* A parameter that is no closure
PlainParam(name) == ValueDecl("Var", name, FALSE, FALSE, <<>>, FALSE)

LeadingParams == {<<>>, <<PlainParam("x")>>, <<PlainParam("x"), PlainParam("y")>>}

\* Functions with a well-formed completion handler of any parameter list
HandlerFuncs ==
  { FuncDecl(FALSE, FALSE, FALSE,
             <<PlainParam("x"), ValueDecl("Var", "completion", TRUE, TRUE, P, FALSE)>>,
             TRUE, TRUE, FALSE) :
      P \in SeqsUpTo(HandlerParamTypes, MaxHandlerParams) }

\* Functions of every shape, with a last parameter of at most two types
ShapedFuncs ==
  { FuncDecl(a, t, c, L \o <<ValueDecl("Var", n, f, v, P, ac)>>, r, b, w) :
      a \in BOOLEAN, t \in BOOLEAN, c \in BOOLEAN, L \in LeadingParams,
      n \in {"completion", "handler"}, f \in BOOLEAN, v \in BOOLEAN,
      P \in SeqsUpTo({IntTy, OptionalOf(ErrorTy)}, 2), ac \in BOOLEAN,
      r \in BOOLEAN, b \in BOOLEAN, w \in BOOLEAN }
  \cup { FuncDecl(FALSE, FALSE, FALSE, L \o <<ValueDecl("Var", "completion", TRUE, TRUE, P, FALSE)>>,
                  TRUE, b, w) :
           L \in LeadingParams, b \in BOOLEAN, w \in BOOLEAN,
           P \in SeqsUpTo(HandlerParamTypes, 2) }
  \cup { FuncDecl(FALSE, FALSE, FALSE, L, r, TRUE, FALSE) :
           L \in LeadingParams, r \in BOOLEAN }

\* Declarations a call's callback argument may refer to
CallbackDecls ==
  { ValueDecl(k, n, f, v, P, FALSE) :
      k \in {"Var", "Func", "Other"}, n \in {"completion", "handler"},
      f \in BOOLEAN, v \in BOOLEAN, P \in SeqsUpTo(HandlerParamTypes, 2) }

HandlerRequest(op, FD, Decl, Require) ==
  [op |-> op, FD |-> FD, Decl |-> Decl, Require |-> Require]

HandlerRequests ==
  { HandlerRequest("find", FD, NoDecl, q) :
      FD \in HandlerFuncs \cup ShapedFuncs, q \in BOOLEAN }
  \cup { HandlerRequest("get", FuncDecl(FALSE, FALSE, FALSE, <<>>, TRUE, TRUE, FALSE), D, FALSE) :
           D \in CallbackDecls }

InitHandler == AsyncInit(HandlerRequests, "start")

\* AsyncHandlerParamDesc::find on the function of the request
FindHandler ==
  /\ pc = "start"
  /\ request.op = "find"
  /\ locals' = [TopHandler |->
                  AsyncHandlerParamDesc_find(request.FD, request.Require)]
  /\ pc' = "found"
  /\ UNCHANGED <<AssertsEnabled, conv, hadAnyError, request, edits, uses,
                 diags, ret, RenameLocs, entry, index, accepted>>

\* AsyncHandlerDesc::get on the declaration a callback argument refers to
GetHandler ==
  /\ pc = "start"
  /\ request.op = "get"
  /\ locals' = [TopHandler |->
                  AsyncHandlerDesc_get(request.Decl, request.Require)]
  /\ pc' = "got"
  /\ UNCHANGED <<AssertsEnabled, conv, hadAnyError, request, edits, uses,
                 diags, ret, RenameLocs, entry, index, accepted>>

\* convert() on a function declaration, up to the end of addFuncDecl; the
\* performChange functions find the handler without requiring a name.
AddFuncDecl ==
  /\ pc = "found"
  /\ ~request.Require
  /\ conv' = <<addFuncDecl(request.FD, locals.TopHandler)>>
  /\ pc' = "declared"
  /\ UNCHANGED <<AssertsEnabled, hadAnyError, request, edits, uses, locals,
                 diags, ret, RenameLocs, entry, index, accepted>>

NextHandler == FindHandler \/ GetHandler \/ AddFuncDecl

SpecHandler == InitHandler /\ [][NextHandler]_vars

(***************************************************************************)
(* Claims about the handler description.                                   *)
(***************************************************************************)

\* get() has run on a declaration: directly, or from find() past its checks
\* of the function.
GetCalled ==
  \/ pc = "got"
  \/ /\ pc \in {"found", "declared"}
     /\ ~(request.FD.hasAsync \/ request.FD.hasThrows)
     /\ Len(request.FD.Params) > 0 /\ request.FD.resultIsVoid
     /\ ~request.FD.Params[Len(request.FD.Params)].isAutoClosure

\* The declaration get() has run on, and its RequireName argument
GetHandlerArg ==
  IF request.op = "get" THEN request.Decl
  ELSE request.FD.Params[Len(request.FD.Params)]

GetRequireName ==
  IF request.op = "get" THEN request.Require
  ELSE request.Require /\ ~request.FD.hasCompletionHandlerAsyncAttr

\* The handler is a variable or function whose type is a function type that
\* returns Void.
VoidFunctionHandler ==
  /\ GetCalled
  /\ GetHandlerArg.declKind \in {"Var", "Func"}
  /\ GetHandlerArg.isFunctionType /\ GetHandlerArg.resultIsVoid

DescIs(Desc, Type, HasError, Params) ==
  /\ Desc.Type = Type
  /\ Desc.HasError = HasError
  /\ Desc.Handler = GetHandlerArg
  /\ params(Desc) = Params

\* C12 as stated: for a handler whose type is a Void-returning function,
\* get() returns a RESULT descriptor with hasError = (second generic
\* argument is inhabited) when the handler has exactly one parameter of
\* Result type, and otherwise a valid PARAMS descriptor over the full
\* parameter list with hasError = (the last parameter's type, one optional
\* level stripped, conforms to Error).
C12_ResultElseParams ==
  VoidFunctionHandler =>
    \E P \in {GetHandlerArg.Params} :
      IF Len(P) = 1 /\ isResult(P[1])
        THEN DescIs(locals.TopHandler, "RESULT", ~isUninhabited(P[1].args[2]), P)
        ELSE DescIs(locals.TopHandler, "PARAMS",
                    P # <<>> /\ conformsToError(
                                  lookThroughSingleOptionalType(P[Len(P)])),
                    P)

\* C12 (amended): for a handler whose type is a Void-returning function,
\* get() returns no descriptor when a completion-like name is required and
\* the handler has none; else a RESULT descriptor with hasError = (second
\* generic argument is inhabited) when the handler has exactly one parameter
\* of Result type; else no descriptor when any of several parameters has
\* Result type; else a PARAMS descriptor over the full parameter list with
\* hasError = (there is a last parameter, its type is an Optional, and the
\* wrapped type conforms to Error).
C12_ResultParamsOrInvalid ==
  VoidFunctionHandler =>
    \E P \in {GetHandlerArg.Params} :
      IF GetRequireName /\ ~isCompletionHandlerParamName(GetHandlerArg.name)
        THEN ~isValid(locals.TopHandler)
      ELSE IF Len(P) = 1 /\ isResult(P[1])
        THEN DescIs(locals.TopHandler, "RESULT", ~isUninhabited(P[1].args[2]), P)
      ELSE IF \E n \in 1..Len(P) : isResult(P[n])
        THEN ~isValid(locals.TopHandler)
      ELSE DescIs(locals.TopHandler, "PARAMS",
                  /\ P # <<>>
                  /\ isOptional(P[Len(P)])
                  /\ conformsToError(P[Len(P)].args[1]),
                  P)

\* A handler (Int, Error), whose last parameter is an Error that is not
\* optional, has been described as PARAMS without an error.
C12_PlainErrorIsSuccessParam ==
  /\ VoidFunctionHandler
  /\ GetHandlerArg.Params = <<IntTy, ErrorTy>>
  /\ locals.TopHandler.Type = "PARAMS"
  /\ ~locals.TopHandler.HasError

(***************************************************************************)
(* Claims about the rewritten signature.                                   *)
(***************************************************************************)

\* The text `tok` is written at or after place `from` of the buffer.
WrittenFrom(Buf, from, tok) == \E i \in from..Len(Buf) : Buf[i] = tok

SignatureRewritten(FD, Desc, Buf, Kept) ==
  /\ Len(Buf) > Len(Kept)
  /\ SubSeq(Buf, 1, Len(Kept)) = Kept
  /\ Buf[Len(Kept) + 1] = " async"
  /\ WrittenFrom(Buf, 1, "throws") <=> Desc.HasError
  /\ WrittenFrom(Buf, 1, " -> ") <=>
       ~(\A n \in 1..Len(getSuccessParams(Desc)) :
           isVoid(getSuccessParamAsyncReturnType(Desc, getSuccessParams(Desc)[n])))
  /\ WrittenFrom(Buf, 1, " -> ") =>
       (WrittenFrom(Buf, Len(Kept) + 1, "(") <=> Len(getSuccessParams(Desc)) > 1)

\* C13: the rewritten signature of a function with a completion handler
\* keeps the declaration up to its right parenthesis with exactly the
\* handler parameter removed, then has `async`, has `throws` iff the handler
\* has an error, has a return type iff not every success parameter maps to
\* Void, and that return type is between parentheses iff there is more than
\* one success parameter.
C13_SignatureRewrite ==
  (pc = "declared" /\ isValid(locals.TopHandler)) =>
    SignatureRewritten(
      request.FD, locals.TopHandler, conv[1],
      <<"func f", "(">>
        \o ParamsText([n \in 1..(Len(request.FD.Params) - 1) |-> request.FD.Params[n]])
        \o <<")">>)

\* A function f(x, completion: (Int?, Int?, Error?) -> Void) has been
\* rewritten to one that throws and returns a tuple.
C13_ThrowingTupleWritten ==
  /\ pc = "declared"
  /\ isValid(locals.TopHandler)
  /\ locals.TopHandler.HasError
  /\ Len(getSuccessParams(locals.TopHandler)) = 2
  /\ conv[1] = <<"func f", "(", "x", ")", " async", " ", "throws", " -> ",
                 "(", "Int", ", ", "Int", ")", " ">>

(***************************************************************************)
(* CallbackClassifier.  A statement of a closure body is given by what the *)
(* classifier reads of it; its identity is its path from the body.  What   *)
(* CallbackCondition::all finds in the condition of an if or guard is part *)
(* of the statement.                                                       *)
(***************************************************************************)

\* Number of plain statements in a branch of an if, guard or case.
MaxBranchStmts == 2

CallbackCondition(Subject, Type, ErrorCase) ==
  [Subject |-> Subject, Type |-> Type, ErrorCase |-> ErrorCase]

\* Handled is the flag of CallbackCondition::all before "&& !AddTo.empty()".
StmtCondition(Handled, Conds) == [Handled |-> Handled, Conds |-> Conds]

CaseStmt(flaw, ErrorCase, Body) ==
  [flaw |-> flaw, ErrorCase |-> ErrorCase, Body |-> Body]

Stmt(kind, hasResult, Cond, Then, elseKind, Else, Subject, Cases) ==
  [kind |-> kind, hasResult |-> hasResult, Cond |-> Cond, Then |-> Then,
   elseKind |-> elseKind, Else |-> Else, Subject |-> Subject, Cases |-> Cases]

\* An expression, declaration, return or break
Leaf(kind, hasResult) ==
  Stmt(kind, hasResult, StmtCondition(TRUE, {}), <<>>, "none", <<>>, "none", <<>>)

\* An ASTNode in a NodesToPrint
PrintNode(path, S) == [path |-> path, kind |-> S.kind, hasResult |-> S.hasResult]

\* The classifier: Blocks, CurrentBlock, HandledSwitches, IsResultParam and
\* the DiagEngine; Dropped and Split record the statements that are left out
\* on purpose.
Classifier(IsResultParam, had, ds) ==
  [Success |-> <<>>, Error |-> <<>>, Current |-> "Success", Dropped |-> <<>>,
   Split |-> {}, HandledSwitches |-> {}, IsResultParam |-> IsResultParam,
   hadAnyError |-> had, diags |-> ds]

\* NodesToPrint::addNode on the nodes of a block
addNodeTo(cs, Block, N) ==
  IF N.kind = "var" THEN cs ELSE [cs EXCEPT ![Block] = Append(@, N)]

\* NodesToPrint::inBraceStmt
inBraceStmt(path, Body) ==
  SelectSeq([j \in 1..Len(Body) |-> PrintNode(path \o <<j>>, Body[j])],
            LAMBDA N : N.kind # "var")

hasTrailingReturnOrBreak(Elements) ==
  Elements # <<>> /\ Elements[Len(Elements)].kind \in {"return", "break"}

\* A dropTrailingReturnOrBreakIfPossible that also drops a return with a
\* result.
dropTrailingReturnOrBreakIfPossible_DropsResult(Elements) ==
  IF ~hasTrailingReturnOrBreak(Elements) THEN Elements
  ELSE SubSeq(Elements, 1, Len(Elements) - 1)

dropTrailingReturnOrBreakIfPossible(Elements) ==
  IF ~hasTrailingReturnOrBreak(Elements) THEN Elements
  ELSE IF Elements[Len(Elements)].kind = "return" /\ Elements[Len(Elements)].hasResult
    THEN Elements
  ELSE SubSeq(Elements, 1, Len(Elements) - 1)

\* A setNodes that moves the nodes to the block before it looks for a
\* trailing return or break.
setNodes_KeepsTrailing(cs, Block, OtherBlock, Elements) ==
  IF hasTrailingReturnOrBreak(Elements)
    THEN [cs EXCEPT !.Current = OtherBlock,
                    ![Block] = @ \o Elements,
                    !.Dropped = @ \o SubSeq(Elements,
                                  Len(dropTrailingReturnOrBreakIfPossible(Elements)) + 1,
                                  Len(Elements))]
    ELSE [cs EXCEPT ![Block] = @ \o Elements]

\* A setNodes that leaves the current block as it is.
setNodes_KeepsCurrent(cs, Block, OtherBlock, Elements) ==
  IF hasTrailingReturnOrBreak(Elements)
    THEN [cs EXCEPT ![Block] = @ \o dropTrailingReturnOrBreakIfPossible(Elements),
                    !.Dropped = @ \o SubSeq(Elements,
                                  Len(dropTrailingReturnOrBreakIfPossible(Elements)) + 1,
                                  Len(Elements))]
    ELSE [cs EXCEPT ![Block] = @ \o Elements]

\* CallbackClassifier::setNodes
setNodes(cs, Block, OtherBlock, Elements) ==
  IF hasTrailingReturnOrBreak(Elements)
    THEN [cs EXCEPT !.Current = OtherBlock,
                    ![Block] = @ \o dropTrailingReturnOrBreakIfPossible(Elements),
                    !.Dropped = @ \o SubSeq(Elements,
                                  Len(dropTrailingReturnOrBreakIfPossible(Elements)) + 1,
                                  Len(Elements))]
    ELSE [cs EXCEPT ![Block] = @ \o Elements]

\* The block the then branch goes to when every condition is handled, or
\* "mixed" when the conditions disagree.
ThenBlockOf(cs, Conds) ==
  IF \E c \in Conds : /\ c.Subject = "err"
                      /\ (~cs.IsResultParam \/ c.ErrorCase)
                      /\ c.Type = "NOT_NIL"
    THEN "Error"
  ELSE IF \E c1, c2 \in {c \in Conds : cs.IsResultParam \/ c.Subject # "err"} :
            c1.Type # c2.Type
    THEN "mixed"
  ELSE IF \E c \in {c \in Conds : cs.IsResultParam \/ c.Subject # "err"} :
            c.Type = "NIL"
    THEN "Error"
  ELSE "Success"

OtherBlockOf(Block) == IF Block = "Success" THEN "Error" ELSE "Success"

\* A classifyConditional that adds a conditional without callback conditions
\* to the Success block whatever the current block is.
classifyUnhandled_ToSuccess(cs, N, S) ==
  IF S.Cond.Conds = {} THEN addNodeTo(cs, "Success", N)
  ELSE IF S.elseKind # "none" THEN diagnose(cs, "unknown_callback_conditions")
  ELSE IF \E c \in S.Cond.Conds : c.Subject = "err" /\ c.Type = "NOT_NIL"
    THEN addNodeTo(cs, "Error", N)
  ELSE IF \E c \in S.Cond.Conds : c.Type = "NIL"
    THEN addNodeTo(cs, "Error", N)
  ELSE addNodeTo(cs, "Success", N)

\* classifyConditional when some condition is not handled
classifyUnhandled(cs, N, S) ==
  IF S.Cond.Conds = {} THEN addNodeTo(cs, cs.Current, N)
  ELSE IF S.elseKind # "none" THEN diagnose(cs, "unknown_callback_conditions")
  ELSE IF \E c \in S.Cond.Conds : c.Subject = "err" /\ c.Type = "NOT_NIL"
    THEN addNodeTo(cs, "Error", N)
  ELSE IF \E c \in S.Cond.Conds : c.Type = "NIL"
    THEN addNodeTo(cs, "Error", N)
  ELSE addNodeTo(cs, "Success", N)

\* CallbackClassifier::classifySwitch from the loop over the cases on
RECURSIVE classifyCases(_, _, _, _)
\* A classifySwitch that records the switch in HandledSwitches also when it
\* stops at a case it cannot handle.
classifyCases_MarksHandled(cs, path, Cases, I) ==
  IF I > Len(Cases) THEN [cs EXCEPT !.HandledSwitches = @ \cup {path}]
  ELSE IF Cases[I].flaw # "none"
    THEN diagnose([cs EXCEPT !.HandledSwitches = @ \cup {path}], Cases[I].flaw)
  ELSE IF cs.hadAnyError
    THEN setNodes(cs,
                  IF Cases[I].ErrorCase THEN "Error" ELSE "Success",
                  IF Cases[I].ErrorCase THEN "Success" ELSE "Error",
                  inBraceStmt(path \o <<I>>, Cases[I].Body))
  ELSE classifyCases(
         setNodes(cs,
                  IF Cases[I].ErrorCase THEN "Error" ELSE "Success",
                  IF Cases[I].ErrorCase THEN "Success" ELSE "Error",
                  inBraceStmt(path \o <<I>>, Cases[I].Body)),
         path, Cases, I + 1)

classifyCases(cs, path, Cases, I) ==
  \* "Mark this switch statement as having been transformed."
  IF I > Len(Cases) THEN [cs EXCEPT !.HandledSwitches = @ \cup {path}]
  ELSE IF Cases[I].flaw # "none" THEN diagnose(cs, Cases[I].flaw)
  ELSE IF cs.hadAnyError
    \* "Block->addBinding(CC, DiagEngine); if (DiagEngine.hadAnyError()) return;"
    THEN setNodes(cs,
                  IF Cases[I].ErrorCase THEN "Error" ELSE "Success",
                  IF Cases[I].ErrorCase THEN "Success" ELSE "Error",
                  inBraceStmt(path \o <<I>>, Cases[I].Body))
  ELSE classifyCases(
         setNodes(cs,
                  IF Cases[I].ErrorCase THEN "Error" ELSE "Success",
                  IF Cases[I].ErrorCase THEN "Success" ELSE "Error",
                  inBraceStmt(path \o <<I>>, Cases[I].Body)),
         path, Cases, I + 1)

\* CallbackClassifier::classifySwitch
classifySwitch(cs, path, S) ==
  IF ~cs.IsResultParam \/ S.Subject # "err"
    THEN addNodeTo(cs, cs.Current, PrintNode(path, S))
    ELSE classifyCases([cs EXCEPT !.Split = @ \cup {path}], path, S.Cases, 1)

RECURSIVE classifyNodes(_, _, _, _)
RECURSIVE classifyConditional(_, _, _, _)

\* classifyConditional from "TODO: Handle nested ifs" on
classifyBranches(cs, path, S, ThenNodes, ThenBlock) ==
  IF S.elseKind = "none"
    THEN setNodes(cs, ThenBlock, OtherBlockOf(ThenBlock), ThenNodes)
  ELSE IF S.elseKind = "brace"
    THEN setNodes(setNodes(cs, ThenBlock, OtherBlockOf(ThenBlock), ThenNodes),
                  OtherBlockOf(ThenBlock), ThenBlock,
                  inBraceStmt(path \o <<2>>, S.Else))
  ELSE classifyNodes(setNodes(cs, ThenBlock, OtherBlockOf(ThenBlock), ThenNodes),
                     path \o <<2>>, S.Else, 1)

\* CallbackClassifier::classifyConditional
classifyConditional(cs, path, S, ThenNodes) ==
  IF ~(S.Cond.Handled /\ S.Cond.Conds # {})
    THEN classifyUnhandled(cs, PrintNode(path, S), S)
  ELSE IF ThenBlockOf(cs, S.Cond.Conds) = "mixed"
    THEN (IF S.elseKind # "none"
            THEN diagnose(cs, "mixed_callback_conditions")
            ELSE addNodeTo(cs, cs.Current, PrintNode(path, S)))
  ELSE IF cs.hadAnyError
    \* "ThenBlock->addAllBindings(...); if (DiagEngine.hadAnyError()) return;"
    THEN [cs EXCEPT !.Split = @ \cup {path}]
  ELSE classifyBranches([cs EXCEPT !.Split = @ \cup {path}], path, S,
                        ThenNodes, ThenBlockOf(cs, S.Cond.Conds))

\* One turn of the loop of classifyNodes
classifyNode(cs, path, S) ==
  CASE S.kind = "if" ->
         classifyConditional(cs, path, S, inBraceStmt(path \o <<1>>, S.Then))
    [] S.kind = "guard" -> classifyConditional(cs, path, S, <<>>)
    [] S.kind = "switch" -> classifySwitch(cs, path, S)
    [] OTHER -> addNodeTo(cs, cs.Current, PrintNode(path, S))

\* classifyNodes after the statement at I: "if (DiagEngine.hadAnyError())"
classifyRest(cs, path, Elements, I) ==
  IF cs.hadAnyError THEN cs ELSE classifyNodes(cs, path, Elements, I + 1)

\* CallbackClassifier::classifyNodes on the statements Elements, which are at
\* path, from the statement at I on
classifyNodes(cs, path, Elements, I) ==
  IF I > Len(Elements) THEN cs
  ELSE classifyRest(classifyNode(cs, path \o <<I>>, Elements[I]), path, Elements, I)

\* addHoistedClosureCallback: the blocks of the closure body
classifyBody(cs, HasError, Body) ==
  IF ~HasError THEN [cs EXCEPT !.Success = @ \o inBraceStmt(<<>>, Body)]
  ELSE IF Body # <<>> THEN classifyNodes(cs, <<>>, Body, 1)
  ELSE cs

(***************************************************************************)
(* The closure bodies that are classified.                                 *)
(***************************************************************************)

Expr == Leaf("expr", FALSE)

Terminators ==
  {<<>>, <<Leaf("return", FALSE)>>, <<Leaf("return", TRUE)>>, <<Leaf("break", FALSE)>>}

ShortBranches == {<<Expr>>, <<Expr, Leaf("return", FALSE)>>}

\* What CallbackCondition::all finds in a condition when the handler has
\* parameters (err, val, val2) and when it has a Result parameter (err)
ParamsConds ==
  { StmtCondition(TRUE, {}),
    StmtCondition(TRUE, {CallbackCondition("val", "NIL", FALSE),
                         CallbackCondition("val2", "NOT_NIL", FALSE)}),
    StmtCondition(TRUE, {CallbackCondition("err", "NIL", FALSE),
                         CallbackCondition("val", "NOT_NIL", FALSE)}) }
  \cup { StmtCondition(h, {CallbackCondition(d, t, FALSE)}) :
           h \in BOOLEAN, d \in {"err", "val"}, t \in {"NIL", "NOT_NIL"} }

ResultConds ==
  { StmtCondition(TRUE, {}) }
  \cup { StmtCondition(h, {CallbackCondition("err", "NOT_NIL", e)}) :
           h \in BOOLEAN, e \in BOOLEAN }

IfStmt(Cond, Then, elseKind, Else) ==
  Stmt("if", FALSE, Cond, Then, elseKind, Else, "none", <<>>)

GuardStmt(Cond, Body) ==
  Stmt("guard", FALSE, Cond, <<>>, "brace", Body, "none", <<>>)

SwitchStmt(Subject, Cases) ==
  Stmt("switch", FALSE, StmtCondition(TRUE, {}), <<>>, "none", <<>>, Subject, Cases)

\* An if without else if
PlainIfs(Conds, Thens, Elses) ==
  { IfStmt(c, T, "none", <<>>) : c \in Conds, T \in Thens }
  \cup { IfStmt(c, T, "brace", E) : c \in Conds, T \in Thens, E \in Elses }

Branches ==
  { [j \in 1..k |-> Expr] \o t : k \in 0..MaxBranchStmts, t \in Terminators }
  \cup { <<Leaf("pbd", FALSE), Leaf("var", FALSE), Expr>> }
  \cup { <<i, Expr>> : i \in PlainIfs({StmtCondition(TRUE, {CallbackCondition("val", "NOT_NIL", FALSE)})},
                                      {<<Expr>>}, {<<Expr>>}) }

CaseStmts ==
  { CaseStmt(f, FALSE, <<Expr>>) :
      f \in {"callback_with_fallthrough", "callback_with_default",
             "callback_multiple_case_items", "callback_where_case_item"} }
  \cup { CaseStmt("none", e, B) :
           e \in BOOLEAN, B \in ShortBranches \cup {<<>>, <<Expr, Leaf("break", FALSE)>>} }

\* The if, guard and switch statements of a body whose conditions are Conds
Conditionals(Conds) ==
  PlainIfs(Conds, Branches, ShortBranches \cup {<<>>, <<Leaf("return", TRUE)>>})
  \cup { IfStmt(c, T, "if", <<i>>) :
           c \in Conds, T \in ShortBranches,
           i \in PlainIfs(Conds, ShortBranches, {<<Expr>>}) }
  \cup { GuardStmt(c, B) : c \in Conds, B \in Branches }
  \cup { SwitchStmt(d, Cs) : d \in {"err", "other"}, Cs \in SeqsUpTo(CaseStmts, 1) }

ResultSwitches ==
  { SwitchStmt("err", Cs) : Cs \in [1..2 -> CaseStmts] }

\* Bodies with one conditional, and bodies with two short ones
BodiesOf(Compound, Short) ==
  { L \o <<c>> \o T : L \in {<<>>, <<Expr>>}, c \in Compound,
                      T \in ShortBranches \cup {<<>>} }
  \cup { <<c1, c2>> : c1 \in Short, c2 \in Short }

ShortConditionals(Conds) ==
  PlainIfs(Conds, {<<Expr, Leaf("return", FALSE)>>}, {<<>>})
  \cup { GuardStmt(c, <<Leaf("return", FALSE)>>) : c \in Conds }

ClassifyRequest(Type, HasError, Body) ==
  [op |-> "classify", Type |-> Type, HasError |-> HasError, Body |-> Body]

ClassifyRequests ==
  { ClassifyRequest("PARAMS", TRUE, B) :
      B \in BodiesOf(Conditionals(ParamsConds), ShortConditionals(ParamsConds)) }
  \cup { ClassifyRequest("RESULT", TRUE, B) :
      B \in BodiesOf(Conditionals(ResultConds) \cup ResultSwitches,
                     ShortConditionals(ResultConds)) }
  \cup { ClassifyRequest(t, h, B) :
      t \in {"PARAMS", "RESULT"}, h \in BOOLEAN,
      B \in {<<>>, <<Expr>>, <<Leaf("pbd", FALSE), Leaf("var", FALSE), Leaf("return", FALSE)>>} }

InitClassify == AsyncInit(ClassifyRequests, "start")

\* A node the walk meets before the call: a call without its completion
\* handler argument.
EarlierError ==
  /\ pc = "start"
  /\ ~hadAnyError
  /\ hadAnyError' = TRUE
  /\ diags' = Append(diags, "missing_callback_arg")
  /\ UNCHANGED <<AssertsEnabled, pc, conv, request, edits, uses, locals, ret,
                 RenameLocs, entry, index, accepted>>

\* addHoistedClosureCallback up to "if (DiagEngine.hadAnyError())"
Classify ==
  /\ pc = "start"
  /\ \E cs \in {classifyBody(Classifier(request.Type = "RESULT", hadAnyError, diags),
                             request.HasError, request.Body)} :
       /\ locals' = cs
       /\ hadAnyError' = cs.hadAnyError
       /\ diags' = cs.diags
  /\ pc' = "classified"
  /\ UNCHANGED <<AssertsEnabled, conv, request, edits, uses, ret,
                 RenameLocs, entry, index, accepted>>

NextClassify == EarlierError \/ Classify

SpecClassify == InitClassify /\ [][NextClassify]_vars

(***************************************************************************)
(* Claims about the classified blocks.                                     *)
(***************************************************************************)

RECURSIVE StmtsIn(_, _)
\* Every statement at or below the statements Elements, which are at path
StmtsIn(path, Elements) ==
  UNION { {PrintNode(path \o <<i>>, Elements[i])}
          \cup StmtsIn(path \o <<i, 1>>, Elements[i].Then)
          \cup StmtsIn(path \o <<i, 2>>, Elements[i].Else)
          \cup UNION { StmtsIn(path \o <<i, c>>, Elements[i].Cases[c].Body) :
                         c \in 1..Len(Elements[i].Cases) } :
          i \in 1..Len(Elements) }

\* How many times a statement is in the Success block, the Error block and
\* the dropped statements
TimesIn(cs, N) ==
  Cardinality({k \in 1..Len(cs.Success) : cs.Success[k] = N})
  + Cardinality({k \in 1..Len(cs.Error) : cs.Error[k] = N})
  + Cardinality({k \in 1..Len(cs.Dropped) : cs.Dropped[k] = N})

\* The statement is in a branch of statements that have all been split
InSplitBranch(cs, path) ==
  \A n \in 1..(Len(path) - 1) :
    n % 2 = 1 => SubSeq(path, 1, n) \in cs.Split

\* C14: when the classification of a closure body ends and the diagnostic
\* engine has no error, every statement of the body and of the branches of
\* its split if, guard and switch statements, other than a variable that is
\* printed with its pattern binding, is either split itself or exactly once
\* in the Success block, the Error block and the dropped statements taken
\* together; the dropped statements are returns and breaks, and nothing
\* inside a statement that has not been split is in any of them.
C14_EveryStatementInOnePlace ==
  (pc = "classified" /\ ~hadAnyError) =>
    /\ \A N \in StmtsIn(<<>>, request.Body) :
         IF ~InSplitBranch(locals, N.path) \/ N.kind = "var"
           THEN TimesIn(locals, N) = 0 /\ N.path \notin locals.Split
         ELSE IF N.path \in locals.Split
           THEN TimesIn(locals, N) = 0 /\ N.kind \in {"if", "guard", "switch"}
         ELSE TimesIn(locals, N) = 1
    /\ \A k \in 1..Len(locals.Dropped) :
         locals.Dropped[k].kind \in {"return", "break"}

\* A body "if <err not nil> { ...; return } else if ... { ... } else { ... }"
\* and more has been classified: both blocks have statements, a return has
\* been dropped and an else-if has been split.
C14_SplitThroughElseIf ==
  /\ pc = "classified" /\ ~hadAnyError
  /\ locals.Success # <<>> /\ locals.Error # <<>> /\ locals.Dropped # <<>>
  /\ {<<1>>, <<1, 2, 1>>} \subseteq locals.Split

(***************************************************************************)
(* Names of hoisted declarations: Names, ScopedNames and the functions     *)
(* that fill them.  A name is a sequence of characters.  Log records each  *)
(* identifier the last step has made, with the names of the scope before   *)
(* it; Made has, for every scope of ScopedNames, the identifiers made in   *)
(* it so far, and Count is the number of identifiers made.                 *)
(***************************************************************************)

\* No step makes identifiers once MaxAssignments of them have been made, and
\* MaxScopes scopes are entered after the first one.
MaxAssignments == 2
MaxScopes == 1

RECURSIVE to_string(_)
\* std::to_string
to_string(n) ==
  IF n < 10 THEN DigitOf(n) ELSE to_string(n \div 10) \o DigitOf(n % 10)

\* A declaration with its getDeclName()
NamedDecl(id, name) == [id |-> id, name |-> name]

NamingState(ScopeNames) ==
  [Names |-> <<>>, ScopedNames |-> <<ScopeNames>>, Log |-> <<>>,
   Made |-> <<{}>>, Count |-> 0, Scopes |-> 1]

\* The loop of createUniqueName
RECURSIVE uniqueNameFrom(_, _, _)
uniqueNameFrom(CurrentNames, Name, UniqueId) ==
  IF (Name \o to_string(UniqueId)) \in CurrentNames
    THEN uniqueNameFrom(CurrentNames, Name, UniqueId + 1)
    ELSE Name \o to_string(UniqueId)

\* A createUniqueName that always numbers from the size of the scope.
createUniqueName_CountsNames(CurrentNames, Name) ==
  IF Name \in CurrentNames
    THEN Name \o to_string(Cardinality(CurrentNames))
    ELSE Name

\* AsyncConverter::createUniqueName
createUniqueName(CurrentNames, Name) ==
  IF Name \in CurrentNames THEN uniqueNameFrom(CurrentNames, Name, 1) ELSE Name

\* Names.try_emplace(D, Ident)
try_emplace(Map, key, value) ==
  IF key \in DOMAIN Map THEN Map
  ELSE [k \in DOMAIN Map \cup {key} |-> IF k = key THEN value ELSE Map[k]]

\* assignUniqueName / addResult from the created identifier on
insertName(ns, D, given, Ident) ==
  [ns EXCEPT
     !.Names = IF D.id = "none" THEN @ ELSE try_emplace(@, D.id, Ident),
     !.ScopedNames[Len(ns.ScopedNames)] = @ \cup {Ident},
     !.Log = Append(@, [Bound |-> given, Declared |-> D.name, Ident |-> Ident,
                        Before |-> ns.ScopedNames[Len(ns.ScopedNames)],
                        MadeBefore |-> ns.Made[Len(ns.Made)]]),
     !.Made[Len(ns.Made)] = @ \cup {Ident},
     !.Count = @ + 1]

\* assignUniqueName once BoundName is not empty
assignNamed(ns, D, given, BoundName) ==
  insertName(ns, D, given,
             createUniqueName(ns.ScopedNames[Len(ns.ScopedNames)],
                              IF Head(BoundName) = "$"
                                THEN <<"v", "a", "l">> \o Tail(BoundName)
                                ELSE BoundName))

\* AsyncConverter::assignUniqueName
assignUniqueName(ns, D, BoundName) ==
  IF BoundName = <<>>
    THEN (IF D.name = <<>> THEN ns ELSE assignNamed(ns, D, BoundName, D.name))
    ELSE assignNamed(ns, D, BoundName, BoundName)

\* The names and aliases of a ClassifiedBlock
NamedBlock(BoundNames, Aliases) == [BoundNames |-> BoundNames, Aliases |-> Aliases]

\* ClassifiedBlock::boundName
boundName(Block, D) ==
  IF D.id \in DOMAIN Block.BoundNames THEN Block.BoundNames[D.id] ELSE <<>>

RECURSIVE prepareParams(_, _, _, _)
\* The first loop of prepareNames
prepareParams(ns, Block, Params, AddIfMissing) ==
  IF Params = <<>> THEN ns
  ELSE prepareParams(
         IF boundName(Block, Head(Params)) # <<>> \/ AddIfMissing
           THEN assignUniqueName(ns, Head(Params), boundName(Block, Head(Params)))
           ELSE ns,
         Block, Tail(Params), AddIfMissing)

\* The second loop of prepareNames: every alias gets the name of its
\* parameter.
prepareAliases(ns, Aliases) ==
  [ns EXCEPT !.Names =
     [k \in DOMAIN ns.Names \cup {a.var : a \in Aliases} |->
        IF \E a \in Aliases : a.var = k
          THEN ns.Names[(CHOOSE a \in Aliases : a.var = k).param]
          ELSE ns.Names[k]]]

\* AsyncConverter::prepareNames
prepareNames(ns, Block, Params, AddIfMissing) ==
  prepareAliases(prepareParams(ns, Block, Params, AddIfMissing), Block.Aliases)

\* AsyncConverter::clearNames
clearNames(ns, Params) ==
  [ns EXCEPT !.Names =
     [k \in DOMAIN ns.Names \ {Params[n].id : n \in 1..Len(Params)} |-> ns.Names[k]],
             !.Log = <<>>]

\* AsyncConverter::addNewScope
addNewScope(ns, Decls) ==
  [ns EXCEPT !.ScopedNames = Append(@, {D.name : D \in {D \in Decls : D.name # <<>>}}),
             !.Made = Append(@, {}),
             !.Scopes = @ + 1,
             !.Log = <<>>]

(***************************************************************************)
(* The walk of a converter, as far as it makes names.                      *)
(***************************************************************************)

ParamA == NamedDecl("p1", <<"a">>)
ParamA2 == NamedDecl("p2", <<"a">>)
\* An anonymous closure parameter $0, and a parameter without a name
ParamAnon == NamedDecl("p3", <<"$", "0">>)
ParamUnnamed == NamedDecl("p4", <<>>)
VarDecls == {NamedDecl("v1", <<"a">>), NamedDecl("v2", <<"a", "1">>)}
ResultName == <<"r", "e", "s", "u", "l", "t">>

ParamLists ==
  {<<ParamA>>, <<ParamA, ParamA2>>, <<ParamAnon>>, <<ParamUnnamed>>,
   <<ParamAnon, ParamA>>}

\* Blocks without bound names, with "if let a = <p1>" and with
\* "if let b = <p1>"
NamedBlocks ==
  { NamedBlock(<<>>, {}),
    NamedBlock("p1" :> <<"a">>, {[var |-> "l1", param |-> "p1"]}),
    NamedBlock("p1" :> <<"b">>, {[var |-> "l1", param |-> "p1"]}) }

\* The names of the declarations used in the scope the converter starts in
InitialScopes ==
  { {}, {<<"a">>}, {<<"a">>, <<"a", "1">>}, {<<"a">>, <<"a", "2">>},
    {<<"a">>, <<"a", "1">>, <<"a", "2">>}, {<<"v", "a", "l", "0">>},
    {ResultName}, {<<"a">>, <<"b">>, ResultName} }

InitNaming ==
  AsyncInit({[op |-> "names", UsedDecls |-> S] : S \in InitialScopes}, "start")

namingRest == <<AssertsEnabled, conv, hadAnyError, request, edits, uses, diags,
                ret, RenameLocs, entry, index, accepted>>

\* AsyncConverter::AsyncConverter: addNewScope(UsedDecls)
Construct ==
  /\ pc = "start"
  /\ locals' = NamingState(request.UsedDecls)
  /\ pc' = "walk"
  /\ UNCHANGED namingRest

\* addHoistedClosureCallback: prepareNames(Block, Params, AddIfMissing)
PrepareNames ==
  /\ pc = "walk"
  /\ locals.Count < MaxAssignments
  /\ \E Params \in ParamLists, Block \in NamedBlocks, AddIfMissing \in BOOLEAN :
       /\ \A a \in Block.Aliases : \E n \in 1..Len(Params) : Params[n].id = a.param
       /\ locals' = prepareNames([locals EXCEPT !.Log = <<>>], Block, Params,
                                 AddIfMissing)
  /\ UNCHANGED <<pc, namingRest>>

\* addHoistedClosureCallback: clearNames(Params)
ClearNames ==
  /\ pc = "walk"
  /\ \E Params \in ParamLists :
       /\ \E n \in 1..Len(Params) : Params[n].id \in DOMAIN locals.Names
       /\ locals' = clearNames(locals, Params)
  /\ UNCHANGED <<pc, namingRest>>

\* AsyncConverter::walkToDeclPre on a variable
WalkToDeclPre ==
  /\ pc = "walk"
  /\ locals.Count < MaxAssignments
  /\ \E D \in VarDecls :
       /\ D.id \notin DOMAIN locals.Names
       /\ locals' = assignUniqueName([locals EXCEPT !.Log = <<>>], D, <<>>)
  /\ UNCHANGED <<pc, namingRest>>

\* addHoistedNamedCallback: createUniqueName("result") and its insertion
AddResultName ==
  /\ pc = "walk"
  /\ locals.Count < MaxAssignments
  /\ locals' = insertName([locals EXCEPT !.Log = <<>>],
                          NamedDecl("none", <<>>), ResultName,
                          createUniqueName(locals.ScopedNames[Len(locals.ScopedNames)],
                                           ResultName))
  /\ UNCHANGED <<pc, namingRest>>

\* AsyncConverter::walkToStmtPre on a statement that starts a scope
WalkToStmtPre ==
  /\ pc = "walk"
  /\ locals.Scopes <= MaxScopes
  /\ \E Decls \in {{}, {ParamA}, {ParamUnnamed}} :
       locals' = addNewScope(locals, Decls)
  /\ UNCHANGED <<pc, namingRest>>

\* AsyncConverter::walkToStmtPost on that statement
WalkToStmtPost ==
  /\ pc = "walk"
  /\ Len(locals.ScopedNames) > 1
  /\ locals' = [locals EXCEPT
                  !.ScopedNames = SubSeq(@, 1, Len(@) - 1),
                  !.Made = SubSeq(@, 1, Len(@) - 1),
                  !.Log = <<>>]
  /\ UNCHANGED <<pc, namingRest>>

NextNaming ==
  \/ Construct \/ PrepareNames \/ ClearNames \/ WalkToDeclPre
  \/ AddResultName \/ WalkToStmtPre \/ WalkToStmtPost

SpecNaming == InitNaming /\ [][NextNaming]_vars

(***************************************************************************)
(* Claims about the names.                                                 *)
(***************************************************************************)

\* Ident is Base, or Base with the smallest positive number that gives a
\* name outside Before when Base is in Before.
SmallestUnused(Base, Before, Ident) ==
  IF Base \notin Before THEN Ident = Base
  ELSE \E k \in 1..(Cardinality(Before) + 1) :
         /\ Ident = Base \o to_string(k)
         /\ Ident \notin Before
         /\ \A j \in 1..(k - 1) : (Base \o to_string(j)) \in Before

\* The identifier is none of the names of its scope and none of the
\* identifiers made in that scope before.
NoCollision(e) == e.Ident \notin e.Before /\ e.Ident \notin e.MadeBefore

BaseName(e) ==
  IF e.Bound # <<>> THEN e.Bound
  ELSE IF Head(e.Declared) = "$" THEN <<"v", "a", "l">> \o Tail(e.Declared)
  ELSE e.Declared

ArgExpr(kind, decl, isFailure) == [kind |-> kind, decl |-> decl, isFailure |-> isFailure]

\* callee: "handler" for the handler of the function that is converted
BlockNode(kind, callee, Args) == [kind |-> kind, callee |-> callee, Args |-> Args]

HandlerResult(Results, IsError) == [Results |-> Results, IsError |-> IsError]

\* AsyncHandlerDesc::getAsHandlerCall
getAsHandlerCall(Desc, N) ==
  isValid(Desc) /\ N.kind = "call" /\ N.callee = "handler"

\* AsyncHandlerDesc::extractResultArgs
extractResultArgs(Desc, Args) ==
  IF Desc.Type = "PARAMS"
    THEN IF Desc.HasError /\ Args[Len(Args)].kind # "nil"
           THEN HandlerResult(<<Args[Len(Args)]>>, TRUE)
         ELSE IF willAsyncReturnVoid(Desc) THEN HandlerResult(<<>>, FALSE)
         ELSE HandlerResult(IF Desc.HasError THEN DropLast(Args) ELSE Args, FALSE)
  ELSE IF Len(Args) # 1 \/ Args[1].kind # "enum" THEN HandlerResult(Args, FALSE)
  ELSE IF ~Args[1].isFailure /\ willAsyncReturnVoid(Desc)
    THEN HandlerResult(<<>>, FALSE)
  ELSE HandlerResult(<<ArgExpr("ref", Args[1].decl, FALSE)>>, Args[1].isFailure)

\* "RequireDo = SingleDecl != ErrParam && !(Res.isError() && SingleDecl &&
\*  SingleDecl->getName().isSimpleName(ErrName))"
requireDoFor(Res, ErrParam, ErrName) ==
  IF Len(Res.Results) = 1
    THEN /\ Res.Results[1].decl # ErrParam
         /\ ~(/\ Res.IsError
              /\ Res.Results[1].decl.id # "none"
              /\ Res.Results[1].decl.name = ErrName)
    ELSE TRUE

\* A RequireDo that asks for do and catch whenever the closure has an error
\* parameter, whatever the error block.
RequireDo_Always(TopHandler, ErrorNodes, ErrParam, ErrName) ==
  ErrParam.id # "none"

\* addHoistedClosureCallback: RequireDo
RequireDo(TopHandler, ErrorNodes, ErrParam, ErrName) ==
  IF Len(ErrorNodes) = 1 /\ getAsHandlerCall(TopHandler, ErrorNodes[1])
    THEN requireDoFor(extractResultArgs(TopHandler, ErrorNodes[1].Args),
                      ErrParam, ErrName)
    ELSE ErrorNodes # <<>>

RECURSIVE convertNodes(_, _, _)
\* AsyncConverter::convertNodes: one piece for every node that is printed
convertNodes(st, ToPrint, piece) ==
  IF ToPrint = <<>> THEN st
  ELSE convertNodes(write(st, piece), Tail(ToPrint), piece)

\* addHoistedClosureCallback from "if (RequireDo) { addDo(); }" on
hoistClassified(st, Blocks, doCatch) ==
  IF doCatch
    THEN write(convertNodes(
                 write(convertNodes(write(write(st, "do"), "await"),
                                    Blocks.Success, "success node"),
                       "catch"),
                 Blocks.Error, "error node"),
               "end catch")
    ELSE convertNodes(write(st, "await"), Blocks.Success, "success node")

(***************************************************************************)
(* The classified closures that are hoisted.                               *)
(***************************************************************************)

\* The closure's error (or Result) parameter, a declaration with the name
\* that may be bound to it, another declaration, and no declaration
ErrParamDecl == NamedDecl("err", <<"e", "r", "r">>)
BoundDecl == NamedDecl("l1", <<"e">>)
OtherDecl == NamedDecl("x", <<"x">>)
NullDecl == NamedDecl("none", <<>>)

PlainArgs ==
  { ArgExpr("nil", NullDecl, FALSE), ArgExpr("other", NullDecl, FALSE) }
  \cup { ArgExpr("ref", d, FALSE) : d \in {ErrParamDecl, BoundDecl, OtherDecl} }

ResultArgs ==
  { ArgExpr("enum", d, f) :
      d \in {ErrParamDecl, BoundDecl, OtherDecl, NullDecl}, f \in BOOLEAN }
  \cup { ArgExpr("ref", ErrParamDecl, FALSE), ArgExpr("ref", OtherDecl, FALSE) }

\* The handlers of the function that is converted: none, and handlers with
\* these parameters
TopHandlers ==
  { InvalidDesc }
  \cup { AsyncHandlerDesc_get(ValueDecl("Var", "completion", TRUE, TRUE, P, FALSE), FALSE) :
           P \in { <<OptionalOf(IntTy), OptionalOf(ErrorTy)>>, <<OptionalOf(ErrorTy)>>,
                   <<OptionalOf(ErrorTy), OptionalOf(ErrorTy)>>, <<IntTy>>,
                   <<OptionalOf(VoidTy), OptionalOf(ErrorTy)>>,
                   <<ResultOf(IntTy, ErrorTy)>>, <<ResultOf(VoidTy, ErrorTy)>> } }

\* The calls of a handler: as many arguments as it has parameters
HandlerCalls(Desc) ==
  { BlockNode("call", "handler", Args) :
      Args \in [1..Len(params(Desc)) ->
                  IF Desc.Type = "RESULT" THEN ResultArgs ELSE PlainArgs] }

ExprNode == BlockNode("expr", "none", <<>>)

ErrorBlocks(Desc) ==
  { <<>>, <<ExprNode>>, <<ExprNode, ExprNode>>,
    <<BlockNode("call", "other", <<ArgExpr("ref", ErrParamDecl, FALSE)>>)>> }
  \cup (IF isValid(Desc)
          THEN { <<c>> : c \in HandlerCalls(Desc) }
               \cup { <<ExprNode, c>> : c \in HandlerCalls(Desc) }
          ELSE {})

HoistRequest(TopHandler, Success, Error, ErrName) ==
  [op |-> "hoist", TopHandler |-> TopHandler,
   Blocks |-> [Success |-> Success, Error |-> Error], ErrName |-> ErrName]

HoistRequests ==
  UNION { { HoistRequest(T, S, E, n) :
              S \in {<<>>, <<ExprNode>>}, E \in ErrorBlocks(T),
              n \in {<<>>, <<"e">>} } : T \in TopHandlers }

InitHoist == AsyncInit(HoistRequests, "classified")

\* addHoistedClosureCallback after a classification without error
HoistClassified ==
  /\ pc = "classified"
  /\ ~hadAnyError
  /\ \E st \in {hoistClassified(ConvState(<<>>, hadAnyError, diags), request.Blocks,
                                RequireDo(request.TopHandler, request.Blocks.Error,
                                          ErrParamDecl, request.ErrName))} :
       conv' = <<st.Buffer>>
  /\ pc' = "hoisted"
  /\ UNCHANGED <<AssertsEnabled, hadAnyError, request, edits, uses, locals,
                 diags, ret, RenameLocs, entry, index, accepted>>

NextHoist == HoistClassified

SpecHoist == InitHoist /\ [][NextHoist]_vars

(***************************************************************************)
(* Claims about do and catch.                                              *)
(***************************************************************************)

Written(piece) == \E k \in 1..Len(conv[1]) : conv[1][k] = piece

\* The argument refers to the error parameter or to a declaration with the
\* name bound to it.
RefersToError(Arg) ==
  /\ Arg.kind \in {"ref", "enum"}
  /\ \/ Arg.decl = ErrParamDecl
     \/ Arg.decl.id # "none" /\ Arg.decl.name = request.ErrName

\* The error block is one call of the handler of the converted function
\* that passes the error on as its error: as the last argument of a handler
\* with an error parameter, or in .failure of a handler with a Result.
ForwardsError ==
  /\ Len(request.Blocks.Error) = 1
  /\ isValid(request.TopHandler)
  /\ request.Blocks.Error[1].kind = "call"
  /\ request.Blocks.Error[1].callee = "handler"
  /\ \E Args \in {request.Blocks.Error[1].Args} :
       IF request.TopHandler.Type = "PARAMS"
         THEN /\ request.TopHandler.HasError
              /\ Args[Len(Args)].kind = "ref"
              /\ RefersToError(Args[Len(Args)])
         ELSE /\ Args[1].kind = "enum" /\ Args[1].isFailure
              /\ RefersToError(Args[1])

\* C16 as stated: do and catch are written exactly when the error block is
\* not one call of the own handler that forwards the error parameter (or
\* the name bound to it) unchanged; without them no node of the error block
\* is printed.
C16_DoUnlessPassthrough ==
  pc = "hoisted" =>
    /\ Written("do") <=> ~ForwardsError
    /\ Written("catch") <=> ~ForwardsError
    /\ ~Written("do") => ~Written("error node")

\* The error block is one call of the own handler whose only result is the
\* closure's error parameter itself: its only success argument, or the
\* Result it got.
ForwardsErrorParamAsResult ==
  /\ Len(request.Blocks.Error) = 1
  /\ isValid(request.TopHandler)
  /\ request.Blocks.Error[1].kind = "call"
  /\ request.Blocks.Error[1].callee = "handler"
  /\ \E Args \in {request.Blocks.Error[1].Args} :
       IF request.TopHandler.Type = "PARAMS"
         THEN /\ ~(request.TopHandler.HasError /\ Args[Len(Args)].kind # "nil")
              /\ ~willAsyncReturnVoid(request.TopHandler)
              /\ Len(Args) = (IF request.TopHandler.HasError THEN 2 ELSE 1)
              /\ Args[1] = ArgExpr("ref", ErrParamDecl, FALSE)
         ELSE \/ Args[1] = ArgExpr("ref", ErrParamDecl, FALSE)
              \/ /\ Args[1] = ArgExpr("enum", ErrParamDecl, FALSE)
                 /\ ~willAsyncReturnVoid(request.TopHandler)

\* C16 (amended): do and catch are written exactly when the error block is
\* not empty and is not one call of the own handler that either forwards
\* the error parameter (or the name bound to it) unchanged as its error, or
\* has the error parameter itself as its only result; without them no node
\* of the error block is printed, and with them every node is.
C16_DoUnlessEmptyOrPassthrough ==
  pc = "hoisted" =>
    /\ Written("do") <=>
         /\ request.Blocks.Error # <<>>
         /\ ~ForwardsError
         /\ ~ForwardsErrorParamAsResult
    /\ Written("catch") <=> Written("do")
    /\ Written("error node") <=> Written("do")

\* A closure whose error block is "completion(nil, e)", e being the name
\* bound to the error parameter, has been hoisted without do and catch.
C16_BoundNamePassthroughElided ==
  /\ pc = "hoisted"
  /\ request.ErrName = <<"e">>
  /\ request.Blocks.Error =
       <<BlockNode("call", "handler",
                   <<ArgExpr("nil", NullDecl, FALSE), ArgExpr("ref", BoundDecl, FALSE)>>)>>
  /\ ~Written("do") /\ ~Written("error node") /\ Written("await")

(***************************************************************************)
(* Classification failures and the DiagnosticEngine's error state during   *)
(* one traversal.                                                          *)
(***************************************************************************)

\* The node's conversion calls DiagEngine.diagnose.
Diagnoses(n) ==
  \/ n.kind \in {"missing_callback_arg", "mismatched_callback_args"}
  \/ n.kind = "closure" /\ n.classifyError

\* Node i is the only node of the traversal that raises a diagnostic, and the
\* diagnostic comes from the classification of its closure.
OnlyClassificationFails(nodes, i) ==
  /\ nodes[i].kind = "closure"
  /\ \A j \in DOMAIN nodes : Diagnoses(nodes[j]) <=> j = i

\* C17: when the classification of a call's closure raises the only
\* diagnostic of an operation, the finished operation has succeeded with an
\* edit if the handler is of the PARAMS convention, and has failed without
\* any edit if the handler is of the RESULT convention.
C17_FallbackForParamsOnly ==
  pc = "done" =>
    \A i \in DOMAIN request.start.nodes :
      OnlyClassificationFails(request.start.nodes, i) =>
        IF request.start.nodes[i].Type = "PARAMS"
          THEN ret = "success" /\ edits # <<>>
          ELSE ret = "failure" /\ edits = <<>>

\* The conversion of the node leaves an error that no fallback of the same
\* node recovers.
Unrecovered(n) ==
  \/ n.kind \in {"missing_callback_arg", "mismatched_callback_args"}
  \/ n.kind = "closure" /\ n.classifyError /\ n.Type # "PARAMS"

\* C19: once convert() has returned, the DiagnosticEngine is without error
\* (convert() returned true) only if no node of the traversal raised a
\* diagnostic other than a PARAMS classification diagnostic.
C19_EarlierErrorKept ==
  (uses = <<1>> /\ ~hadAnyError) =>
    \A i \in DOMAIN request.start.nodes : ~Unrecovered(request.start.nodes[i])

(***************************************************************************)
(* The availability query: collectAvailableRefactorings for a cursor and   *)
(* for a range.  The variable diags holds what the caller's                *)
(* DiagnosticConsumers have received, locals the caller's Kinds vector and *)
(* its RangeStartMayNeedRename flag.                                       *)
(***************************************************************************)

\* DiagnosticEngine DiagEngine(SM) with the consumers added to it.
DiagnosticEngine(Consumers) ==
  [Consumers |-> Consumers, raised |-> <<>>, delivered |-> <<>>]

\* DiagnosticEngine::diagnose: the diagnostic goes to the engine's consumers.
emitDiagnostic(DE, d) ==
  [DE EXCEPT !.raised = Append(@, d),
             !.delivered = IF DE.Consumers > 0 THEN Append(@, d) ELSE @]

ExtractCheckResult(KnownFailure, AllReasons, DE) ==
  [KnownFailure |-> KnownFailure, AllReasons |-> AllReasons, DE |-> DE]

\* ExtractCheckResult::success(ExpectedReasons)
success(R, ExpectedReasons) ==
  ~R.KnownFailure /\ R.AllReasons \subseteq ExpectedReasons

\* Rejected stands for the checks that fail without a diagnostic: "early" for
\* those before the orphan check (unsure exit, l-value, inout or error type),
\* "late" for those after it (guard, brace and case statements, closures,
\* contexts that cannot hold the extracted code).
checkExtractConditions(RI, DE) ==
  IF RI.ReferredAfterRange
    THEN ExtractCheckResult(TRUE, {},
           emitDiagnostic(DE, "value_decl_referenced_out_of_range"))
  ELSE IF ~RI.HasSingleEntry
    THEN ExtractCheckResult(TRUE, {}, emitDiagnostic(DE, "multi_entry_range"))
  ELSE IF RI.Rejected = "early" THEN ExtractCheckResult(TRUE, {}, DE)
  ELSE IF RI.Orphan # "None"
    THEN ExtractCheckResult(TRUE, {}, emitDiagnostic(DE, "orphan_loop_keyword"))
  ELSE IF RI.Rejected = "late" THEN ExtractCheckResult(TRUE, {}, DE)
  ELSE ExtractCheckResult(FALSE,
         (IF RI.isVoid THEN {"VoidType"} ELSE {})
           \cup (IF RI.Kind = "SingleExpression" /\ RI.isLiteral
                   THEN {"Literal"} ELSE {}),
         DE)

\* The result of an isApplicable: its value and the engine it has used.
Applicability(applicable, DE) == [applicable |-> applicable, DE |-> DE]

extractApplicable(R, ExpectedReasons) ==
  Applicability(success(R, ExpectedReasons), R.DE)

\* RefactoringActionExtractFunction::isApplicable
ExtractFunction_isApplicable(RI, DE) ==
  IF RI.Kind \in {"SingleExpression", "SingleStatement", "MultiStatement"}
    THEN extractApplicable(checkExtractConditions(RI, DE), {"VoidType"})
    ELSE Applicability(FALSE, DE)

\* RefactoringActionExtractExpr::isApplicable
ExtractExpr_isApplicable(RI, DE) ==
  IF RI.Kind = "SingleExpression"
    THEN extractApplicable(checkExtractConditions(RI, DE), {})
    ELSE Applicability(FALSE, DE)

\* RefactoringActionExtractRepeatedExpr::isApplicable
ExtractRepeatedExpr_isApplicable(RI, DE) ==
  IF RI.Kind = "SingleExpression"
    THEN extractApplicable(checkExtractConditions(RI, DE), {"Literal"})
    ELSE Applicability(FALSE, DE)

\* findEnclosingSwitchStmt returns nullptr, after no_parent_switch.
NoParentSwitch(TrailingStmt) == TrailingStmt = "case_without_switch"

\* RefactoringActionExpandDefault::isApplicable
ExpandDefault_isApplicable(CI, DE) ==
  IF CI.Kind # "StmtStart"
    THEN Applicability(FALSE, emitDiagnostic(DE, "invalid_default_location"))
  ELSE IF CI.TrailingStmt = "other"
    THEN Applicability(FALSE, emitDiagnostic(DE, "invalid_default_location"))
  ELSE IF NoParentSwitch(CI.TrailingStmt)
    THEN Applicability(FALSE, emitDiagnostic(DE, "no_parent_switch"))
  ELSE Applicability(CI.TrailingStmt = "default_of_enum_switch", DE)

\* RefactoringActionLocalRename::isApplicable
LocalRename_isApplicable(CI, DE) ==
  Applicability(CI.Kind = "ValueRef" /\ CI.RenameOp = "LocalRename", DE)

\* The result of a query: the Kinds vector and the engine.
Collected(Kinds, DE) == [Kinds |-> Kinds, DE |-> DE]

\* if (RefactoringAction##KIND::isApplicable(...)) Kinds.push_back(KIND);
pushIf(C, KIND, A) ==
  Collected(IF A.applicable THEN Append(C.Kinds, KIND) ELSE C.Kinds, A.DE)

\* The rename part of collectAvailableRefactorings for a cursor.
collectRename(C, CI) ==
  \* the rename kinds
  pushIf(pushIf(C, "LocalRename", LocalRename_isApplicable(CI, C.DE)),
         "GlobalRename",
         Applicability(CI.Kind = "ValueRef" /\ CI.RenameOp = "GlobalRename",
                       C.DE))

\* The CURSOR_REFACTORING part: ExpandDefault, then the kinds whose
\* isApplicable never diagnoses, held in CI.Others.
collectCursorKinds(C, CI) ==
  Collected(pushIf(C, "ExpandDefault",
                   ExpandDefault_isApplicable(CI, C.DE)).Kinds \o CI.Others,
            ExpandDefault_isApplicable(CI, C.DE).DE)

\* collectAvailableRefactorings(CursorInfo, Kinds, ExcludeRename): the engine
\* is a new one without any consumer.
collectAvailableRefactoringsForCursor(Kinds, CI, ExcludeRename) ==
  collectCursorKinds(IF ExcludeRename
                       THEN Collected(Kinds, DiagnosticEngine(0))
                       ELSE collectRename(Collected(Kinds, DiagnosticEngine(0)),
                                          CI),
                     CI)

\* The RANGE_REFACTORING part of collectAvailableRefactorings for a range.
collectRangeKinds(C, RI) ==
  Collected(
    pushIf(pushIf(pushIf(C, "ExtractExpr", ExtractExpr_isApplicable(RI, C.DE)),
                  "ExtractFunction",
                  ExtractFunction_isApplicable(RI,
                    ExtractExpr_isApplicable(RI, C.DE).DE)),
           "ExtractRepeatedExpr",
           ExtractRepeatedExpr_isApplicable(RI,
             ExtractFunction_isApplicable(RI,
               ExtractExpr_isApplicable(RI, C.DE).DE).DE)).Kinds \o RI.Others,
    ExtractRepeatedExpr_isApplicable(RI,
      ExtractFunction_isApplicable(RI,
        ExtractExpr_isApplicable(RI, C.DE).DE).DE).DE)

CursorInfoKinds == {"Invalid", "ValueRef", "ModuleRef", "ExprStart", "StmtStart"}

TrailingStmts ==
  {"other", "case_without_switch", "case", "default_of_enum_switch",
   "default_of_other_switch"}

ResolvedCursorInfo(Kind, RenameOp, TrailingStmt, Others) ==
  [Kind |-> Kind, RenameOp |-> RenameOp, TrailingStmt |-> TrailingStmt,
   Others |-> Others]

CursorInfos ==
  { ResolvedCursorInfo(k, r, t, o) :
      k \in CursorInfoKinds, r \in {"none", "LocalRename", "GlobalRename"},
      t \in TrailingStmts, o \in {<<>>, <<"FillProtocolStub">>} }

RangeKinds ==
  {"Invalid", "SingleExpression", "SingleDecl", "MultiTypeMemberDecl",
   "SingleStatement", "MultiStatement", "PartOfExpression"}

ResolvedRangeInfo(Kind, ReferredAfterRange, HasSingleEntry, Rejected, Orphan, Reasons, Others) ==
  [Kind |-> Kind, ReferredAfterRange |-> ReferredAfterRange,
   HasSingleEntry |-> HasSingleEntry, Rejected |-> Rejected, Orphan |-> Orphan,
   isVoid |-> "VoidType" \in Reasons, isLiteral |-> "Literal" \in Reasons,
   Others |-> Others]

RangeInfos ==
  { ResolvedRangeInfo(k, r, h, j, o, v, x) :
      k \in RangeKinds, r \in BOOLEAN, h \in BOOLEAN,
      j \in {"no", "early", "late"}, o \in {"None", "Continue", "Break"},
      v \in SUBSET {"VoidType", "Literal"},
      x \in {<<>>, <<"ConvertToTernaryExpr">>} }

\* One call of the query.  Consumers is the number of DiagnosticConsumers
\* the caller supplies, MayNeedRename the value of rangeStartMayNeedRename.
Query(api, Length, LocValid, CI, RI, ExcludeRename, Consumers, MayNeedRename) ==
  [api |-> api, Length |-> Length, LocValid |-> LocValid, Cursor |-> CI,
   Range |-> RI, ExcludeRename |-> ExcludeRename, Consumers |-> Consumers,
   MayNeedRename |-> MayNeedRename]

NoCursor == ResolvedCursorInfo("Invalid", "none", "other", <<>>)

NoRange == ResolvedRangeInfo("Invalid", FALSE, TRUE, "no", "None", {}, <<>>)

Queries ==
  { Query("cursor", 0, TRUE, c, NoRange, e, 0, FALSE) :
      c \in CursorInfos, e \in BOOLEAN }
  \cup { Query("range", 0, v, c, NoRange, FALSE, n, FALSE) :
           v \in BOOLEAN, c \in CursorInfos, n \in 0..1 }
  \cup { Query("range", 1, TRUE, NoCursor, r, FALSE, n, m) :
           r \in RangeInfos, n \in 0..1, m \in BOOLEAN }

InitQuery == AsyncInit(Queries, "start")

queryRest == <<AssertsEnabled, request, conv, uses, hadAnyError, edits, ret,
               RenameLocs, entry, index, accepted>>

\* The caller's Kinds and RangeStartMayNeedRename after the call.
Returned(C, MayNeedRename) ==
  [Kinds |-> C.Kinds, RangeStartMayNeedRename |-> MayNeedRename]

\* collectAvailableRefactorings(CursorInfo, Kinds, ExcludeRename)
CollectForCursor ==
  /\ pc = "start"
  /\ request.api = "cursor"
  /\ \E C \in {collectAvailableRefactoringsForCursor(<<>>, request.Cursor,
                                                      request.ExcludeRename)} :
       /\ locals' = Returned(C, FALSE)
       /\ diags' = diags \o C.DE.delivered
  /\ pc' = "done"
  /\ UNCHANGED queryRest

\* collectAvailableRefactorings(SF, Range, ...) with Range.Length == 0:
\* collectAvailableRefactoringsAtCursor, whose own engine holds the consumers
\* and is not handed on.
CollectAtCursor ==
  /\ pc = "start"
  /\ request.api = "range" /\ request.Length = 0
  /\ \E C \in {IF request.LocValid
                 THEN collectAvailableRefactoringsForCursor(<<>>, request.Cursor,
                                                            FALSE)
                 ELSE Collected(<<>>, DiagnosticEngine(request.Consumers))} :
       /\ locals' = Returned(C, FALSE)
       /\ diags' = diags \o C.DE.delivered
  /\ pc' = "done"
  /\ UNCHANGED queryRest

\* collectAvailableRefactorings(SF, Range, ...) with a range that is not empty.
CollectForRange ==
  /\ pc = "start"
  /\ request.api = "range" /\ request.Length > 0
  /\ \E C \in {collectRangeKinds(
                 Collected(<<>>, DiagnosticEngine(request.Consumers)),
                 request.Range)} :
       /\ locals' = Returned(C, request.MayNeedRename)
       /\ diags' = diags \o C.DE.delivered
  /\ pc' = "done"
  /\ UNCHANGED queryRest

NextQuery ==
  \/ CollectForCursor
  \/ CollectAtCursor
  \/ CollectForRange

SpecQuery == InitQuery /\ [][NextQuery]_vars

\* C18: the availability query, for a cursor or for a range, sends no edit
\* and reports no diagnostic to the caller's diagnostic consumers.
C18_QueryWithoutEffect == pc = "done" => edits = <<>> /\ diags = <<>>

(***************************************************************************)
(* Bounds of the accesses of renameLabelsLenient.                          *)
(***************************************************************************)

\* Occurrence i has been handed to the Renamer: accept() has been called for
\* it, or the process has aborted in it.
Processed(i) == i <= Len(accepted) \/ (pc = "abort" /\ i = index + 1)

\* renameLabelsLenient on occurrence i reads or drops outside OldNames: the
\* bounds assertions of ArrayRef, were they compiled in, would fail.
LenientOutOfBounds(i) ==
  renameLabelsLenient(Context(OldOf(i).labels, TRUE, <<>>), LocOf(i).Buffer,
                      LocOf(i).LabelRanges, LocOf(i).FirstTrailingLabel,
                      LocOf(i).LabelType).abort

\* C20: for every occurrence that has gone through lenient matching, no
\* access OldNames[NameIndex], back() or drop_back() was made outside the
\* list, and every index handed to doRenameLabel is smaller than the number
\* of labels of the old name.
C20_LenientAccessesInBounds ==
  /\ \A i \in 1..Len(RenameLocs) :
       Processed(i) /\ IsLenient(i) => ~LenientOutOfBounds(i)
  /\ \A i \in 1..Len(accepted) :
       IsLenient(i) =>
         \A k \in 1..Len(accepted[i].calls) :
           accepted[i].calls[k].index # None
             => accepted[i].calls[k].index < Len(OldOf(i).labels)

(***************************************************************************)
(* Claims about the block each branch of a conditional is classified into. *)
(***************************************************************************)

\* The statements of branch b of the statement S: 1 for the then branch, 2
\* for the else branch or the body of a guard, c for the body of case c.
BranchOf(S, b) ==
  IF S.kind = "switch" THEN S.Cases[b].Body
  ELSE IF b = 1 THEN S.Then
  ELSE S.Else

RECURSIVE StmtAt(_, _)
\* The statement at path below the statements Elements
StmtAt(path, Elements) ==
  IF Len(path) = 1 THEN Elements[path[1]]
  ELSE StmtAt(SubSeq(path, 3, Len(path)), BranchOf(Elements[path[1]], path[2]))

InBlock(cs, Block, N) == \E k \in 1..Len(cs[Block]) : cs[Block][k] = N

\* Every node to print of the brace statement Body at path, but a trailing
\* return or break that is dropped, is in Block and not in the other block.
BranchInBlock(cs, Block, path, Body) ==
  \A k \in 1..Len(dropTrailingReturnOrBreakIfPossible(inBraceStmt(path, Body))) :
    /\ InBlock(cs, Block, inBraceStmt(path, Body)[k])
    /\ ~InBlock(cs, OtherBlockOf(Block), inBraceStmt(path, Body)[k])

\* The else branch of the conditional S at path has gone to Block: a brace
\* statement with its nodes to print, an else-if with every statement of it
\* that is in a block at all.
ElseInBlock(cs, Block, path, S) ==
  /\ S.elseKind = "brace" => BranchInBlock(cs, Block, path \o <<2>>, S.Else)
  /\ \A N \in StmtsIn(path \o <<2>>, S.Else) :
       ~InBlock(cs, OtherBlockOf(Block), N)

\* The if and guard statements whose branches have been classified
SplitConditionals(cs, Body) ==
  {q \in cs.Split : StmtAt(q, Body).kind \in {"if", "guard"}}

\* The then branch of S at path has gone to ThenBlock, its else branch or
\* guard body to the other block.
BranchesIn(cs, ThenBlock, path, S) ==
  /\ BranchInBlock(cs, ThenBlock, path \o <<1>>, S.Then)
  /\ ElseInBlock(cs, OtherBlockOf(ThenBlock), path, S)

\* C21: after a classification without error, every if or guard whose
\* conditions are all recognized and test the error parameter has, under
\* the PARAMS convention with a NOT_NIL test, its then branch in the Error
\* block and its else branch in the Success block, and under the RESULT
\* convention its then branch in the Error block for .failure and in the
\* Success block for .success, with its else branch in the other block.
C21_ErrorTestSelectsBlock ==
  (pc = "classified" /\ ~hadAnyError) =>
    \A q \in SplitConditionals(locals, request.Body) :
      \A c \in StmtAt(q, request.Body).Cond.Conds :
        c.Subject = "err" =>
          IF request.Type = "RESULT"
            THEN BranchesIn(locals, IF c.ErrorCase THEN "Error" ELSE "Success",
                            q, StmtAt(q, request.Body))
            ELSE c.Type = "NOT_NIL" =>
                   BranchesIn(locals, "Error", q, StmtAt(q, request.Body))

\* C24: after a classification without error, for every if statement whose
\* conditions are all recognized and whose then branch has gone to a block,
\* every statement of its else branch that is in a block is in the other
\* block, for a brace statement and for an else-if.
C24_ElseOppositeToThen ==
  (pc = "classified" /\ ~hadAnyError) =>
    \A q \in SplitConditionals(locals, request.Body) :
      \A B \in {"Success", "Error"} :
        (/\ StmtAt(q, request.Body).kind = "if"
         /\ StmtAt(q, request.Body).elseKind # "none"
         /\ BranchInBlock(locals, B, q \o <<1>>, StmtAt(q, request.Body).Then)
         /\ \E N \in StmtsIn(q \o <<1>>, StmtAt(q, request.Body).Then) :
              InBlock(locals, B, N))
          => ElseInBlock(locals, OtherBlockOf(B), q, StmtAt(q, request.Body))

(***************************************************************************)
(* Claims about conditionals whose conditions are not all recognized.      *)
(***************************************************************************)

\* Statement i of the body is the first if, guard or switch of the body: the
\* classifier reaches it with the blocks it started with.
FirstConditional(Body, i) ==
  /\ i \in 1..Len(Body)
  /\ Body[i].kind \in {"if", "guard"}
  /\ \A j \in 1..(i - 1) : Body[j].kind \notin {"if", "guard", "switch"}

\* Some but not all conditions of S are recognized callback conditions
PartlyRecognized(S) == ~S.Cond.Handled /\ S.Cond.Conds # {}

\* The walk has met no error before the call whose closure is classified
NoEarlierError == diags = <<>> \/ diags[1] # "missing_callback_arg"

\* C22: without an earlier error, an if or guard with recognized and
\* unrecognized conditions that has an else branch raises a diagnostic and
\* is in neither block; one without else is once in the Error block and not in the Success block if a
\* recognized condition has NIL polarity, and once in the Success block and
\* not in the Error block otherwise.
C22_PartlyRecognized ==
  (pc = "classified" /\ NoEarlierError) =>
    \A i \in 1..Len(request.Body) :
      (/\ request.HasError
       /\ FirstConditional(request.Body, i)
       /\ PartlyRecognized(request.Body[i])) =>
        IF request.Body[i].elseKind # "none"
          THEN /\ diags = <<"unknown_callback_conditions">>
               /\ ~InBlock(locals, "Success", PrintNode(<<i>>, request.Body[i]))
               /\ ~InBlock(locals, "Error", PrintNode(<<i>>, request.Body[i]))
        ELSE IF \E c \in request.Body[i].Cond.Conds : c.Type = "NIL"
          THEN /\ InBlock(locals, "Error", PrintNode(<<i>>, request.Body[i]))
               /\ ~InBlock(locals, "Success", PrintNode(<<i>>, request.Body[i]))
          ELSE /\ InBlock(locals, "Success", PrintNode(<<i>>, request.Body[i]))
               /\ ~InBlock(locals, "Error", PrintNode(<<i>>, request.Body[i]))

\* The classifier's current block when it reaches statement i of the body
CurrentAt(Type, Body, i) ==
  classifyNodes(Classifier(Type = "RESULT", FALSE, <<>>), <<>>,
                SubSeq(Body, 1, i - 1), 1).Current

\* Statement i of the body is an if or guard without any recognized
\* callback condition, in a closure whose handler has an error.
Unrecognized(i) ==
  /\ request.HasError
  /\ request.Body[i].kind \in {"if", "guard"}
  /\ request.Body[i].Cond.Conds = {}

\* The statement is whole and once in Block, and not in the other block
WholeIn(cs, Block, N) ==
  /\ Cardinality({k \in 1..Len(cs[Block]) : cs[Block][k] = N}) = 1
  /\ ~InBlock(cs, OtherBlockOf(Block), N)
  /\ N.path \notin cs.Split

Branch(Block, Body) == [Block |-> Block, Body |-> Body]

RECURSIVE BranchesOf(_, _, _)
\* The branches of the classified statement S at path, in source order, each
\* with the block its condition or case selects; an else-if that has been
\* classified contributes its own branches.
BranchesOf(cs, path, S) ==
  IF S.kind = "switch"
    THEN [c \in 1..Len(S.Cases) |->
            Branch(IF S.Cases[c].ErrorCase THEN "Error" ELSE "Success",
                   S.Cases[c].Body)]
  ELSE <<Branch(ThenBlockOf(cs, S.Cond.Conds), S.Then)>>
       \o (IF S.elseKind = "brace"
             THEN <<Branch(OtherBlockOf(ThenBlockOf(cs, S.Cond.Conds)), S.Else)>>
           ELSE IF S.elseKind = "if" /\ (path \o <<2, 1>>) \in cs.Split
             THEN BranchesOf(cs, path \o <<2, 1>>, S.Else[1])
           ELSE <<>>)

EndsInReturnOrBreak(Body) ==
  Body # <<>> /\ Body[Len(Body)].kind \in {"return", "break"}

RECURSIVE CurrentAfter(_, _)
\* The current block the claim requires after the branches Bs, from the
\* current block Block on: every branch that ends in return or break makes
\* the block opposite to its own the current one.
CurrentAfter(Block, Bs) ==
  IF Bs = <<>> THEN Block
  ELSE CurrentAfter(IF EndsInReturnOrBreak(Head(Bs).Body)
                      THEN OtherBlockOf(Head(Bs).Block)
                      ELSE Block,
                    Tail(Bs))

\* Statements (i + 1)..j of the body are plain statements
PlainAfter(Body, i, j) ==
  \A k \in (i + 1)..j : Body[k].kind \notin {"if", "guard", "switch", "var"}

FlawedSwitch(i) ==
  /\ request.Type = "RESULT" /\ request.HasError
  /\ request.Body[i].kind = "switch"
  /\ request.Body[i].Subject = "err"
  /\ PlainAfter(request.Body, 0, i - 1)
  /\ \E c \in 1..Len(request.Body[i].Cases) : request.Body[i].Cases[c].flaw # "none"

\* The first case of Cases that classifySwitch diagnoses
FirstFlaw(Cases) ==
  CHOOSE c \in 1..Len(Cases) :
    /\ Cases[c].flaw # "none"
    /\ \A d \in 1..(c - 1) : Cases[d].flaw = "none"

\* No statement of the body of case c of the switch at path is in a block
CaseBodyUnclassified(cs, path, Cases, c) ==
  \A N \in StmtsIn(path \o <<c>>, Cases[c].Body) : TimesIn(cs, N) = 0

\* C26 as stated: after classifySwitch has raised its diagnostic, no case
\* body of the switch is in a block and the switch is not in HandledSwitches.
C26_SwitchLeftUnclassified ==
  (pc = "classified" /\ NoEarlierError) =>
    \A i \in 1..Len(request.Body) :
      FlawedSwitch(i) =>
        /\ <<i>> \notin locals.HandledSwitches
        /\ \A c \in 1..Len(request.Body[i].Cases) :
             CaseBodyUnclassified(locals, <<i>>, request.Body[i].Cases, c)

\* C26: after classifySwitch has raised its diagnostic, which is that of the
\* first case it cannot handle, the switch is not in HandledSwitches, the
\* bodies of that case and of the cases after it are in no block, and the
\* bodies of the cases before it are in the blocks of their cases.
C26_SwitchStopsAtFlaw ==
  (pc = "classified" /\ NoEarlierError) =>
    \A i \in 1..Len(request.Body) :
      FlawedSwitch(i) =>
        /\ diags = <<request.Body[i].Cases[FirstFlaw(request.Body[i].Cases)].flaw>>
        /\ hadAnyError
        /\ <<i>> \notin locals.HandledSwitches
        /\ \A c \in 1..Len(request.Body[i].Cases) :
             IF c >= FirstFlaw(request.Body[i].Cases)
               THEN CaseBodyUnclassified(locals, <<i>>, request.Body[i].Cases, c)
               ELSE BranchInBlock(locals,
                      IF request.Body[i].Cases[c].ErrorCase THEN "Error" ELSE "Success",
                      <<i, c>>, request.Body[i].Cases[c].Body)

\* A switch whose second case has a where-clause: the body of its first
\* case, .failure, is in the Error block when the diagnostic is raised.
C26_FirstCaseAlreadyAdded ==
  /\ pc = "classified" /\ NoEarlierError
  /\ Len(request.Body) = 1
  /\ FlawedSwitch(1)
  /\ Len(request.Body[1].Cases) = 2
  /\ request.Body[1].Cases[1].flaw = "none"
  /\ request.Body[1].Cases[1].ErrorCase
  /\ request.Body[1].Cases[2].flaw = "callback_where_case_item"
  /\ diags = <<"callback_where_case_item">>
  /\ locals.Error = <<PrintNode(<<1, 1, 1>>, Expr)>>
  /\ locals.HandledSwitches = {}

(***************************************************************************)
(* Claims about the trailing return or break of a classified branch.       *)
(***************************************************************************)

\* The branches of the classified statement S that setNodes has moved to a
\* block: the then and the brace else of an if, the body of a guard, the
\* case bodies of a switch.
MovedBranches(S) ==
  IF S.kind = "switch" THEN 1..Len(S.Cases)
  ELSE IF S.elseKind = "brace" THEN {1, 2}
  ELSE {1}

\* The nodes Elements are in Block one after the other
RunIn(cs, Block, Elements) ==
  \E k \in 0..(Len(cs[Block]) - Len(Elements)) :
    SubSeq(cs[Block], k + 1, k + Len(Elements)) = Elements

\* The nodes to print of a branch that ends in a return without result or
\* in a break: the last node is dropped and in no block, the nodes before it
\* are in a block.
TrailingDropped(cs, Elements) ==
  /\ ~InBlock(cs, "Success", Elements[Len(Elements)])
  /\ ~InBlock(cs, "Error", Elements[Len(Elements)])
  /\ \E k \in 1..Len(cs.Dropped) : cs.Dropped[k] = Elements[Len(Elements)]
  /\ \E B \in {"Success", "Error"} :
       RunIn(cs, B, SubSeq(Elements, 1, Len(Elements) - 1))

\* The nodes to print of a branch that ends in a return with a result: the
\* return is not dropped and is in a block as the last node of the branch.
TrailingKept(cs, Elements) ==
  /\ \A k \in 1..Len(cs.Dropped) : cs.Dropped[k] # Elements[Len(Elements)]
  /\ \E B \in {"Success", "Error"} : RunIn(cs, B, Elements)

MaxBodyNodes == 2

Piece(kind, text) == [kind |-> kind, text |-> text]
tok(t) == Piece("tok", <<t>>)

\* A closure parameter: a declaration with a type
ParamDecl(id, name, Ty) == [id |-> id, name |-> name, Ty |-> Ty]

\* Type::print for the type of a handler parameter
printType(Ty) == IF isOptional(Ty) THEN <<Ty.args[1].name, "?">> ELSE <<Ty.name>>

\* The converter while it writes: OS, Names and ScopedNames, and whether an
\* assertion has failed
Writer(asserts, ns) ==
  [Buffer |-> <<>>, ns |-> ns, asserts |-> asserts, aborted |-> FALSE]

\* OS << pieces
os(w, pieces) == IF w.aborted THEN w ELSE [w EXCEPT !.Buffer = @ \o pieces]

\* AsyncConverter::newNameFor: the empty StringRef for a declaration that
\* has no entry in Names
newNameFor(ns, D) == IF D.id \in DOMAIN ns.Names THEN ns.Names[D.id] ELSE <<>>

\* assert(!Required && "Missing name for decl when one was required")
requireName(w, D) ==
  IF w.asserts /\ D.id \notin DOMAIN w.ns.Names
    THEN [w EXCEPT !.aborted = TRUE]
    ELSE w

\* OS << newNameFor(D)
osNewNameFor(w, D) ==
  os(requireName(w, D), <<Piece("name", newNameFor(w.ns, D))>>)

RECURSIVE addFallbackVars(_, _)
\* AsyncConverter::addFallbackVars
addFallbackVars(w, FallbackParams) ==
  IF FallbackParams = <<>> THEN w
  ELSE addFallbackVars(
         os(osNewNameFor(os(w, <<tok("var")>>), Head(FallbackParams)),
            <<tok(":"), Piece("type", printType(Head(FallbackParams).Ty))>>
            \o (IF getOptionalObjectType(Head(FallbackParams).Ty) = NullType
                  THEN <<tok("?")>> ELSE <<>>)
            \o <<tok("="), tok("nil"), tok("newline")>>),
         Tail(FallbackParams))

\* AsyncConverter::addDo
addDo(w) == os(w, <<tok("do"), tok("{"), tok("newline")>>)

RECURSIVE addBoundNames(_, _)
\* addAwaitCall: the loop over SuccessParams.drop_front()
addBoundNames(w, Rest) ==
  IF Rest = <<>> THEN w
  ELSE addBoundNames(osNewNameFor(os(w, <<tok(",")>>), Head(Rest)), Tail(Rest))

\* addAwaitCall: the bindings that match the success parameters
addBindings(w, allLet, SuccessParams, AddDeclarations) ==
  os(addBoundNames(
       osNewNameFor(
         os(w, (IF AddDeclarations
                  THEN <<tok(IF allLet THEN "let" ELSE "var")>> ELSE <<>>)
               \o (IF Len(SuccessParams) > 1 THEN <<tok("(")>> ELSE <<>>)),
         Head(SuccessParams)),
       Tail(SuccessParams)),
     (IF Len(SuccessParams) > 1 THEN <<tok(")")>> ELSE <<>>) \o <<tok("=")>>)

\* AsyncConverter::addAwaitCall for a call whose only argument is the
\* completion handler
addAwaitCall(w, allLet, SuccessParams, Desc, AddDeclarations) ==
  os(IF SuccessParams # <<>> /\ ~willAsyncReturnVoid(Desc)
       THEN addBindings(w, allLet, SuccessParams, AddDeclarations)
       ELSE w,
     (IF Desc.HasError THEN <<tok("try")>> ELSE <<>>)
     \o <<tok("await"), Piece("call", <<>>), tok("("), tok(")")>>)

\* AsyncConverter::addFallbackCatch
addFallbackCatch(w, ErrParam) ==
  os(requireName(w, ErrParam),
     <<tok("newline"), tok("}"), tok("catch"), tok("{"), tok("newline"),
       Piece("name", newNameFor(w.ns, ErrParam)), tok("="), tok("error"),
       tok("newline"), tok("}")>>)

\* convertNodes(NodesToPrint::inBraceStmt(CallbackBody)): one piece a node
convertBody(w, CallbackBody) ==
  os(w, [n \in 1..Len(CallbackBody) |-> Piece("node", <<>>)])

\* A fallback that prints the closure's body in the do block, after the
\* awaited call.
addFallback_BodyInDo(w, Desc, CallbackParams, SuccessParams, ErrParam, CallbackBody) ==
  IF Desc.Type # "PARAMS" THEN w
  ELSE [addFallbackCatch(
          convertBody(
            os(addAwaitCall(
                 addDo(addFallbackVars(
                   [w EXCEPT !.ns = prepareNames(@, NamedBlock(<<>>, {}),
                                                 CallbackParams, TRUE)],
                   CallbackParams)),
                 TRUE, SuccessParams, Desc, ~Desc.HasError),
               <<tok("newline")>>),
            CallbackBody),
          ErrParam)
        EXCEPT !.ns = clearNames(@, CallbackParams)]

\* addHoistedClosureCallback inside "if (DiagEngine.hadAnyError())".  The
\* success block of a handler without error is never classified, so its
\* allLet() is true whenever declarations are added.
addFallback(w, Desc, CallbackParams, SuccessParams, ErrParam, CallbackBody) ==
  IF Desc.Type # "PARAMS" THEN w
  ELSE [convertBody(
          os(addFallbackCatch(
               addAwaitCall(
                 addDo(addFallbackVars(
                   [w EXCEPT !.ns = prepareNames(@, NamedBlock(<<>>, {}),
                                                 CallbackParams, TRUE)],
                   CallbackParams)),
                 TRUE, SuccessParams, Desc, ~Desc.HasError),
               ErrParam),
             <<tok("newline")>>),
          CallbackBody)
        EXCEPT !.ns = clearNames(@, CallbackParams)]

\* addHoistedClosureCallback: SuccessParams
successParams(Desc, CallbackParams) ==
  IF Desc.Type # "RESULT" /\ Desc.HasError THEN DropLast(CallbackParams)
  ELSE CallbackParams

\* addHoistedClosureCallback: ErrParam, NullDecl for the null pointer
errParam(Desc, CallbackParams) ==
  IF Desc.Type = "RESULT" \/ Desc.HasError
    THEN CallbackParams[Len(CallbackParams)]
    ELSE NullDecl

(***************************************************************************)
(* The closures that are hoisted as a fallback.                            *)
(***************************************************************************)

\* The parameter types of the completion handlers
FallbackHandlers ==
  { <<OptionalOf(IntTy), OptionalOf(ErrorTy)>>, <<IntTy, OptionalOf(ErrorTy)>>,
    <<OptionalOf(IntTy), IntTy, OptionalOf(ErrorTy)>>, <<OptionalOf(ErrorTy)>>,
    <<OptionalOf(VoidTy), OptionalOf(ErrorTy)>>, <<IntTy>>,
    <<OptionalOf(IntTy), IntTy>>, <<ResultOf(IntTy, ErrorTy)>> }

\* The names of a closure's parameters: no name is given twice, and "_"
\* gives a parameter no name
ClosureNames(k) ==
  { q \in [1..k -> {<<"a">>, <<"b">>, <<"e">>, <<>>}] :
      \A i \in 1..k : \A j \in 1..k : i # j /\ q[i] = q[j] => q[i] = <<>> }

ClosureParams(P, q) ==
  [n \in 1..Len(P) |-> ParamDecl(<<"p1", "p2", "p3">>[n], q[n], P[n])]

FallbackRequest(Desc, Params, Body, classifyError, UsedDecls) ==
  [op |-> "fallback", Desc |-> Desc, Params |-> Params, Body |-> Body,
   classifyError |-> classifyError, UsedDecls |-> UsedDecls]

\* The body of a handler with an error that is not empty is classified, and
\* the classification may fail
FallbackRequests ==
  { r \in UNION { { FallbackRequest(
                      AsyncHandlerDesc_get(
                        ValueDecl("Var", "completion", TRUE, TRUE, P, FALSE), FALSE),
                      ClosureParams(P, q), [n \in 1..k |-> "node"], e, U) :
                      q \in ClosureNames(Len(P)), k \in 0..MaxBodyNodes,
                      e \in BOOLEAN, U \in {{}, {<<"a">>}} } :
                  P \in FallbackHandlers } :
      r.classifyError => r.Desc.HasError /\ r.Body # <<>> }

InitFallback == AsyncInit(FallbackRequests, "start")

\* addHoistedClosureCallback on a closure with as many parameters as the
\* handler, when an error has been diagnosed before the call or is diagnosed
\* by the classification
HoistFallback ==
  /\ pc = "start"
  /\ hadAnyError \/ request.classifyError
  /\ \E w \in {addFallback(Writer(AssertsEnabled, NamingState(request.UsedDecls)),
                           request.Desc, request.Params,
                           successParams(request.Desc, request.Params),
                           errParam(request.Desc, request.Params),
                           request.Body)} :
       /\ conv' = <<w.Buffer>>
       /\ locals' = w.ns
       /\ pc' = IF w.aborted THEN "abort" ELSE "hoisted"
  /\ hadAnyError' = (request.Desc.Type # "PARAMS")
  /\ diags' = IF request.classifyError
                THEN Append(diags, "unknown_callback_conditions")
                ELSE diags
  /\ UNCHANGED <<AssertsEnabled, request, edits, uses, ret,
                 RenameLocs, entry, index, accepted>>

NextFallback == EarlierError \/ HoistFallback

SpecFallback == InitFallback /\ [][NextFallback]_vars

(***************************************************************************)
(* Claims about the text of the fallback.                                  *)
(***************************************************************************)

\* The fallback has run to its end on a handler of type PARAMS.
FallbackWritten ==
  pc = "hoisted" /\ request.op = "fallback" /\ request.Desc.Type = "PARAMS"

\* Where a token stands in the text.
TokenAt(t) == {k \in 1..Len(conv[1]) : conv[1][k] = tok(t)}
DoAt == CHOOSE k \in TokenAt("do") : TRUE
CatchAt == CHOOSE k \in TokenAt("catch") : TRUE
\* The closing brace of the catch clause.
CatchEnd == CatchAt + 7

\* The n-th var declaration, and the name it declares.
NthVar(n) ==
  CHOOSE k \in TokenAt("var") : Cardinality({j \in TokenAt("var") : j < k}) = n - 1
DeclaredName(n) == conv[1][NthVar(n) + 1].text

IsName(p) == p.kind = "name"
\* The names written after position from and before position to.
NamesBetween(from, to) ==
  [n \in 1..Len(SelectSeq(SubSeq(conv[1], from + 1, to - 1), IsName)) |->
     SelectSeq(SubSeq(conv[1], from + 1, to - 1), IsName)[n].text]

NodesAt == {k \in 1..Len(conv[1]) : conv[1][k].kind = "node"}

\* One var of optional type for every closure parameter, all before the do;
\* a parameter without a name is declared with the empty name.
VarPerParam ==
  /\ Cardinality(TokenAt("do")) = 1 /\ Cardinality(TokenAt("catch")) = 1
  /\ DoAt < CatchAt
  /\ Cardinality(TokenAt("var")) = Len(request.Params)
  /\ \A n \in 1..Len(request.Params) :
       /\ NthVar(n) < DoAt
       /\ conv[1][NthVar(n) + 1].kind = "name"
       /\ DeclaredName(n) = <<>> <=> request.Params[n].name = <<>>
       /\ conv[1][NthVar(n) + 2] = tok(":")
       /\ conv[1][NthVar(n) + 3] =
            Piece("type", printType(request.Params[n].Ty))
       /\ conv[1][NthVar(n) + 4] =
            tok(IF isOptional(request.Params[n].Ty) THEN "=" ELSE "?")

\* The declared success variables are assigned from the awaited call in the
\* do block, and the declared error variable in the catch clause.
AssignsDeclared ==
  /\ TokenAt("let") = {}
  /\ \E k \in TokenAt("await") : DoAt < k /\ k < CatchAt
  /\ NamesBetween(DoAt, CatchAt) =
       IF willAsyncReturnVoid(request.Desc) THEN <<>>
       ELSE [n \in 1..Len(request.Params) - 1 |-> DeclaredName(n)]
  /\ NamesBetween(DoAt, CatchAt) # <<>>
       => \E k \in TokenAt("=") : \E a \in TokenAt("await") :
            DoAt < k /\ k < a
  /\ conv[1][CatchAt + 1] = tok("{")
  /\ conv[1][CatchAt + 3] = Piece("name", DeclaredName(Len(request.Params)))
  /\ conv[1][CatchAt + 4] = tok("=")
  /\ conv[1][CatchAt + 5] = tok("error")
  /\ conv[1][CatchEnd] = tok("}")

\* Without an error parameter the awaited call is bound to new constants
\* and the catch clause assigns to the empty name.
DeclaresAnew ==
  /\ ~willAsyncReturnVoid(request.Desc) => conv[1][DoAt + 3] = tok("let")
  /\ conv[1][CatchAt + 3] = Piece("name", <<>>)
  /\ conv[1][CatchAt + 4] = tok("=")
  /\ conv[1][CatchAt + 5] = tok("error")

\* A name is required of a declaration that has none.
NameMissing ==
  \/ ~request.Desc.HasError
  \/ \E n \in 1..Len(request.Params) : request.Params[n].name = <<>>

ParamSpans(i) ==
  IF LocOf(i).LabelType \in {"Param", "NoncollapsibleParam"}
    THEN {j \in 1..Len(LocOf(i).LabelRanges) : CallsIn(i, j) # {}}
    ELSE {}

IsCollapsibleParam(i) == LocOf(i).LabelType = "Param"

\* The kind of the range of the internal name.
LocalKind(i) ==
  IF IsCollapsibleParam(i) THEN "ParameterName" ELSE "NoncollapsibleParameterName"

\* Offset in the span of its first and of its last whitespace or slash.
FirstSeparator(i, j) == FindFirstOf(SpanText(i, j), ParamSplitChars)
LastSeparator(i, j) == FindLastOf(SpanText(i, j), ParamSplitChars)

\* Span j has been split into the one external range Ext and the one
\* internal range Local.
SplitInto(i, j, Ext, Local) ==
  /\ Cardinality(CallsIn(i, j)) = 2
  /\ CallsOfKind(i, j, "DeclArgumentLabel") = {Ext}
  /\ CallsOfKind(i, j, "ParameterName")
       \cup CallsOfKind(i, j, "NoncollapsibleParameterName") = {Local}

\* The split of a span with a separator: the external label ends at the
\* first separator and the internal name runs to the end of the span.
SplitAtSeparator(i, j) ==
  \E Ext \in CallsOfKind(i, j, "DeclArgumentLabel") :
  \E Local \in CallsOfKind(i, j, LocalKind(i)) :
    /\ SplitInto(i, j, Ext, Local)
    /\ Ext.range = Range(LocOf(i).LabelRanges[j].start, FirstSeparator(i, j))
    /\ RangeEnd(Ext.range) <= Local.range.start
    /\ RangeEnd(Local.range) = RangeEnd(LocOf(i).LabelRanges[j])

\* The whole span is the external label and the internal name is the
\* empty range at its end.
WholeSpanExternal(i, j) ==
  \E Ext \in CallsOfKind(i, j, "DeclArgumentLabel") :
  \E Local \in CallsOfKind(i, j, LocalKind(i)) :
    /\ SplitInto(i, j, Ext, Local)
    /\ Ext.range = LocOf(i).LabelRanges[j]
    /\ Local.range = Range(RangeEnd(LocOf(i).LabelRanges[j]), 0)

\* The whole span is the internal name and the external label is the
\* empty range at its start.
WholeSpanInternal(i, j) ==
  \E Ext \in CallsOfKind(i, j, "DeclArgumentLabel") :
  \E Local \in CallsOfKind(i, j, LocalKind(i)) :
    /\ SplitInto(i, j, Ext, Local)
    /\ Ext.range = Range(LocOf(i).LabelRanges[j].start, 0)
    /\ Local.range = LocOf(i).LabelRanges[j]

\* C29 as the specification states it: a parameter label span is split at
\* its first whitespace or comment character into an external and an
\* internal range that do not overlap, and a span without such a character
\* is the external label, the internal name being the empty range at its
\* end, for collapsible and non-collapsible parameters alike.
C29_WholeSpanIsExternal ==
  \A i \in 1..Len(accepted) : \A j \in ParamSpans(i) :
    IF FirstSeparator(i, j) # npos
      THEN SplitAtSeparator(i, j)
      ELSE WholeSpanExternal(i, j)

\* C29: a parameter label span is split at its first whitespace or comment
\* character into an external and an internal range that do not overlap,
\* the internal one starting at the last such character, or behind it for a
\* non-collapsible parameter; a span without such a character is the
\* external label of a collapsible parameter, with the empty range at its
\* end as internal name, and the internal name of a non-collapsible one,
\* with the empty range at its start as external label.
C29_SplitByCollapsibility ==
  \A i \in 1..Len(accepted) : \A j \in ParamSpans(i) :
    IF FirstSeparator(i, j) # npos
      THEN /\ SplitAtSeparator(i, j)
           /\ \A Local \in CallsOfKind(i, j, LocalKind(i)) :
                Local.range.start =
                  LocOf(i).LabelRanges[j].start + LastSeparator(i, j)
                  + (IF IsCollapsibleParam(i) THEN 0 ELSE 1)
      ELSE IF IsCollapsibleParam(i)
        THEN WholeSpanExternal(i, j)
        ELSE WholeSpanInternal(i, j)

\* A non-collapsible parameter list "a b", "b" has been split.
C29_NoncollapsibleSplit ==
  \E i \in 1..Len(accepted) :
    /\ ~IsCollapsibleParam(i)
    /\ ParamSpans(i) = {1, 2}
    /\ SpanText(i, 1) = <<"a", " ", "b">>
    /\ SpanText(i, 2) = <<"b">>

(***************************************************************************)
(* Occurrences of names with a special base: init(a:), subscript(a:) and   *)
(* callAsFunction(a:), and foo(a:) beside them; the text at the base range *)
(* is the old base or the name of a type.                                  *)
(***************************************************************************)

SpecialBases == {InitName, SubscriptName, CallAsFunctionName}

\* (LabelType, label texts)
SpecialShapes ==
  { <<"CallArg", <<<<"a", ":", " ">>>>>>, <<"CallArg", <<<<"b", ":", " ">>>>>>,
    <<"Param", <<<<"a">>>>>>, <<"Param", <<<<"b">>>>>>,
    <<"NoncollapsibleParam", <<<<"a">>>>>>, <<"None", <<>>>> }

\* The occurrences of the name with base b
OccurrencesOf(b) ==
  { Occurrence(NameText(b, <<<<"a">>>>), NameText(b, <<<<"x">>>>), usage, fl,
               FALSE, region, TRUE, text, shape[2], shape[1], None) :
      usage \in Usages, fl \in BOOLEAN,
      region \in {"ActiveCode", "InactiveCode"}, text \in {b, <<"T">>},
      shape \in SpecialShapes }

SpecialOccurrences == UNION { OccurrencesOf(b) : b \in SpecialBases \cup {foo} }

SpecialLocs == {<<o>> : o \in SpecialOccurrences}

InitSpecial == RenameInit(SpecialLocs, {"rename"})

SpecSpecial == InitSpecial /\ [][NextRename]_vars

(***************************************************************************)
(* Claims about the base of a special name.                                *)
(***************************************************************************)

\* Occurrence i is function-like, its old base is special, and the text at
\* its base range is another one.
SpecialBaseDiffers(i) ==
  /\ LocOf(i).IsFunctionLike
  /\ OldOf(i).base \in SpecialBases
  /\ RangeStr(LocOf(i).Buffer, LocOf(i).Range) # OldOf(i).base

\* The labels of occurrence i do not match the old name: at a call site a
\* label is none of the old labels, elsewhere the labels differ from the old
\* ones in number or text.
LabelsFail(i) ==
  IF isCallSite(LocOf(i), OldOf(i))
    THEN \E j \in 1..Len(LocOf(i).LabelRanges) :
           \A k \in 1..Len(OldOf(i).labels) :
             ~labelRangeMatches(LocOf(i).Buffer, LocOf(i).LabelRanges[j],
                                LocOf(i).LabelType, OldOf(i).labels[k])
    ELSE LabelsDiffer(LocOf(i), OldOf(i))

\* The verdict on occurrence i is Mismatch only for its labels.
MismatchOnlyForLabels(i) ==
  accepted[i].type = "Mismatch"
    <=> HandleLabels(LocOf(i), OldOf(i)) /\ LabelsFail(i)

\* C30 as the specification states it: for the special old base names on a
\* function-like occurrence, a base text that differs from the old base
\* yields Mismatch whenever the usage is Definition or Reference, and never
\* causes Mismatch when the usage is Call.
C30_SpecialBaseMustMatch ==
  \A i \in 1..Len(accepted) :
    SpecialBaseDiffers(i)
      => /\ LocOf(i).Usage \in {"Definition", "Reference"}
              => accepted[i].type = "Mismatch"
         /\ LocOf(i).Usage = "Call" => MismatchOnlyForLabels(i)

\* C30: for the old bases init and callAsFunction on a function-like
\* occurrence, a base text that differs from the old base yields Mismatch
\* whenever the usage is Definition or Reference; for the old base subscript
\* it does so for a Definition only; it never causes Mismatch when the usage
\* is Call, nor for a Reference of a subscript.
C30_BaseCheckedByUsage ==
  \A i \in 1..Len(accepted) :
    SpecialBaseDiffers(i)
      => /\ LocOf(i).Usage = "Definition" => accepted[i].type = "Mismatch"
         /\ LocOf(i).Usage = "Reference" /\ OldOf(i).base # SubscriptName
              => accepted[i].type = "Mismatch"
         /\ LocOf(i).Usage = "Reference" /\ OldOf(i).base = SubscriptName
              => MismatchOnlyForLabels(i)
         /\ LocOf(i).Usage = "Call" => MismatchOnlyForLabels(i)

\* A reference T(a: 1) to subscript(a:) has been accepted as active code.
C30_SubscriptReferenceAccepted ==
  \E i \in 1..Len(accepted) :
    /\ SpecialBaseDiffers(i)
    /\ OldOf(i).base = SubscriptName /\ LocOf(i).Usage = "Reference"
    /\ LocOf(i).LabelType = "CallArg"
    /\ accepted[i].type = "ActiveCode"

====
